---- MODULE Spec2Model ----
(***************************************************************************)
(* A model of the remote-office-sync engine: two directory trees (left and *)
(* right), the stored snapshot (sync_state.db), and the sync cycle of      *)
(* SyncRunner: load, scan, merge, generate_sync_jobs, execute, rescan,     *)
(* save.                                                                   *)
(*                                                                         *)
(* A relative path is a sequence of character codes ("a" is <<97>>), so    *)
(* that str.lower(), Path.stem and Path.suffix are computed, not assumed.  *)
(* Times are integers in units of 0.1 s, the smallest tolerance the probe  *)
(* returns; sizes are bytes.  The content of a file is its length.         *)
(*                                                                         *)
(* The two roots are on the same kind of filesystem, chosen in Init (ci):  *)
(* case-insensitive and case-preserving (Windows, what the engine is       *)
(* written for), or case-sensitive (what its test-suite runs on).          *)
(*                                                                         *)
(* The names the engine builds from the clock (conflict artifacts, the     *)
(* temporary name of a case rename, the names in the soft-delete           *)
(* directory) carry a fixed tag in place of the timestamp: two artifacts   *)
(* of one path have one name, as when they are made in the same second.    *)
(* The trees change from outside only between runs.                        *)
(***************************************************************************)
EXTENDS Integers, Sequences, FiniteSets, TLC

\* Python's None for the optional fields of FileMetadata and SyncJob.
None == -2

\* The size sentinel of an empty directory.
DIR_SIZE == -1

\* The empty relative path (the root itself; also "no path").
NoPath == << >>

----------------------------------------------------------------------------
(* Strings *)

\* str.lower() on ASCII codes.
lower(p) == [i \in DOMAIN p |-> IF p[i] \in 65..90 THEN p[i] + 32 ELSE p[i]]

\* str.startswith / str.endswith
startswith(s, pre) ==
    /\ Len(pre) <= Len(s)
    /\ SubSeq(s, 1, Len(pre)) = pre

endswith(s, suf) ==
    /\ Len(suf) <= Len(s)
    /\ SubSeq(s, Len(s) - Len(suf) + 1, Len(s)) = suf

\* Index of the last occurrence of code c in s, 0 when there is none.
LastIndexOf(s, c) ==
    LET idx == {i \in DOMAIN s : s[i] = c}
    IN IF idx = {} THEN 0 ELSE CHOOSE i \in idx : \A j \in idx : j <= i

\* Path.name, Path.parent, Path.stem and Path.suffix of a relative path.
PathName(p) == SubSeq(p, LastIndexOf(p, 47) + 1, Len(p))

PathParent(p) ==
    IF LastIndexOf(p, 47) = 0 THEN NoPath ELSE SubSeq(p, 1, LastIndexOf(p, 47) - 1)

PathSuffix(p) ==
    LET n == PathName(p)
        d == LastIndexOf(n, 46)
    IN IF d > 1 /\ d < Len(n) THEN SubSeq(n, d, Len(n)) ELSE << >>

PathStem(p) ==
    LET n == PathName(p)
    IN SubSeq(n, 1, Len(n) - Len(PathSuffix(p)))

\* parent / name
JoinPath(dir, name) == IF dir = NoPath THEN name ELSE dir \o <<47>> \o name

\* relative_path.parts[:-1]: the directory names above the last component.
RECURSIVE ParentParts(_)
ParentParts(p) ==
    IF PathParent(p) = NoPath THEN {}
    ELSE {PathName(PathParent(p))} \cup ParentParts(PathParent(p))

\* Lexicographic order on paths, used to enumerate directory listings.
RECURSIVE PathLess(_, _)
PathLess(p, q) ==
    IF p = << >> THEN q # << >>
    ELSE IF q = << >> THEN FALSE
    ELSE IF Head(p) # Head(q) THEN Head(p) < Head(q)
    ELSE PathLess(Tail(p), Tail(q))

RECURSIVE SortedPaths(_)
SortedPaths(S) ==
    IF S = {} THEN << >>
    ELSE LET m == CHOOSE p \in S : \A q \in S \ {p} : PathLess(p, q)
         IN <<m>> \o SortedPaths(S \ {m})

Reverse(s) == [i \in 1..Len(s) |-> s[Len(s) + 1 - i]]

SeqToSet(s) == {s[i] : i \in DOMAIN s}

\* x or 0
Or0(x) == IF x = None THEN 0 ELSE x

\* Python truthiness of an optional number.
Truthy(x) == x # None /\ x # 0

----------------------------------------------------------------------------
(* The filesystem.  A tree maps each regular file and each EMPTY directory *)
(* below a root to [mtime, size, attrs]; a directory that has entries is   *)
(* implied by them.  ci is TRUE on a case-insensitive, case-preserving     *)
(* filesystem (NTFS): a name finds the entry that equals it in lower case, *)
(* and a rename onto another existing entry fails.  ci is FALSE on a       *)
(* case-sensitive filesystem, where a rename replaces its target.          *)

\* The key of the entry that name p finds, or NoPath.
lookup(ci, tree, p) ==
    IF p \in DOMAIN tree THEN p
    ELSE IF ci /\ \E k \in DOMAIN tree : lower(k) = lower(p)
    THEN CHOOSE k \in DOMAIN tree : lower(k) = lower(p)
    ELSE NoPath

IsUnder(ci, q, dir) ==
    /\ Len(q) > Len(dir) + 1
    /\ LET pre == SubSeq(q, 1, Len(dir) + 1)
       IN IF ci THEN lower(pre) = lower(dir \o <<47>>) ELSE pre = dir \o <<47>>

\* any(dir.iterdir())
HasEntries(ci, tree, p) == \E q \in DOMAIN tree : IsUnder(ci, q, p)

\* Path.is_file, Path.is_dir, Path.exists
is_file(ci, tree, p) ==
    lookup(ci, tree, p) # NoPath /\ tree[lookup(ci, tree, p)].size # DIR_SIZE

is_dir(ci, tree, p) ==
    \/ p = NoPath
    \/ lookup(ci, tree, p) # NoPath /\ tree[lookup(ci, tree, p)].size = DIR_SIZE
    \/ HasEntries(ci, tree, p)

exists(ci, tree, p) == is_file(ci, tree, p) \/ is_dir(ci, tree, p)

Restrict(f, S) == IF S = {} THEN << >> ELSE [x \in S |-> f[x]]

\* The strict ancestors of p.
RECURSIVE Ancestors(_)
Ancestors(p) ==
    IF PathParent(p) = NoPath THEN {}
    ELSE {PathParent(p)} \cup Ancestors(PathParent(p))

\* Put entry e under key p; the directories above p stop being empty.
PutEntry(tree, p, e) ==
    LET keep == (DOMAIN tree \ Ancestors(p)) \cup {p}
    IN [q \in keep |-> IF q = p THEN e ELSE tree[q]]

DirEntry(now) == [mtime |-> now, size |-> DIR_SIZE, attrs |-> 0]

\* Take key k away; a parent directory left without entries becomes an
\* empty directory, modified at time now.
TakeEntry(ci, tree, k, now) ==
    LET rest == Restrict(tree, DOMAIN tree \ {k})
        par  == PathParent(k)
    IN IF par # NoPath /\ ~HasEntries(ci, rest, par)
       THEN PutEntry(rest, par, DirEntry(now))
       ELSE rest

\* Write entry e to name p: an existing entry keeps its own name.
WriteEntry(ci, tree, p, e) ==
    PutEntry(tree, IF lookup(ci, tree, p) # NoPath THEN lookup(ci, tree, p) ELSE p, e)

\* TRUE when a component above p is a regular file.
BlockedByFile(ci, tree, p) == \E d \in Ancestors(p) : is_file(ci, tree, d)

\* Path.mkdir(parents=True, exist_ok=True) and FileOps.ensure_directory:
\* it fails when the path, or a component above it, is a regular file.
ensure_directory(ci, tree, p, now) ==
    IF is_dir(ci, tree, p) THEN [ok |-> TRUE, tree |-> tree]
    ELSE IF is_file(ci, tree, p) \/ BlockedByFile(ci, tree, p)
    THEN [ok |-> FALSE, tree |-> tree]
    ELSE [ok |-> TRUE, tree |-> PutEntry(tree, p, DirEntry(now))]

\* A failed step leaves the tree as it was before the step.
Failed(tree) == [ok |-> FALSE, tree |-> tree]

OrKeep(done, tree) == IF done.ok THEN done ELSE Failed(tree)

\* shutil.copy2 of a file entry to the path target, key k of the tree: the
\* mtime is kept, the attributes follow the source when it has any.
copy2_to(ci, e, tree, target, k) ==
    IF is_dir(ci, tree, target) \/ ~is_dir(ci, tree, PathParent(target))
    THEN Failed(tree)
    ELSE [ok |-> TRUE,
          tree |-> PutEntry(tree, IF k # NoPath THEN k ELSE target,
                            [mtime |-> e.mtime, size |-> e.size,
                             attrs |-> IF Truthy(e.attrs) THEN e.attrs
                                       ELSE IF k # NoPath THEN tree[k].attrs ELSE 0])]

copy2_at(ci, e, tree, target) == copy2_to(ci, e, tree, target, lookup(ci, tree, target))

\* shutil.copy2 to name dp: into dp when dp is a directory.
copy2(ci, src_path, e, tree, dp) ==
    copy2_at(ci, e, tree,
             IF is_dir(ci, tree, dp) THEN JoinPath(dp, PathName(src_path)) ELSE dp)

\* FileOps.copy_file from one root to the other, after the mkdir of the
\* destination's parent.
copy_file_made(ci, src_tree, sp, made, dp) ==
    IF ~is_file(ci, src_tree, sp) THEN Failed(made.tree)
    ELSE OrKeep(copy2(ci, sp, src_tree[lookup(ci, src_tree, sp)], made.tree, dp),
                made.tree)

\* FileOps.copy_file from one root to the other.
copy_file(ci, src_tree, sp, dst_tree, dp, now) ==
    IF ~ensure_directory(ci, dst_tree, PathParent(dp), now).ok THEN Failed(dst_tree)
    ELSE copy_file_made(ci, src_tree, sp,
                        ensure_directory(ci, dst_tree, PathParent(dp), now), dp)

\* The infix ".CONFLICT.<user>.<timestamp>" of a conflict artifact: ".C".
CONFLICT_TAG == <<46, 67>>

\* The name FileOps.create_clash_file gives the artifact of path p.
clash_path(p) == JoinPath(PathParent(p), PathStem(p) \o CONFLICT_TAG \o PathSuffix(p))

\* FileOps.create_clash_file: a copy of p beside p.
create_clash_file(ci, tree, p) ==
    IF ~is_file(ci, tree, p) THEN Failed(tree)
    ELSE copy2(ci, p, tree[lookup(ci, tree, p)], tree, clash_path(p))

\* The name "<timestamp>_<name>" of a soft-deleted file: "T_<name>".
soft_delete_name(p) == <<84, 95>> \o PathName(p)

\* The entries at and below name p are removed.
RemoveAll(ci, tree, p, now) ==
    LET gone == {q \in DOMAIN tree : q = lookup(ci, tree, p) \/ IsUnder(ci, q, p)}
        rest == Restrict(tree, DOMAIN tree \ gone)
        par  == PathParent(p)
    IN IF par # NoPath /\ ~HasEntries(ci, rest, par)
       THEN PutEntry(rest, par, DirEntry(now))
       ELSE rest

\* Path.stat().st_size of a directory: 0 on NTFS, one block elsewhere.
dir_st_size(ci) == IF ci THEN 0 ELSE 4096

\* FileOps.delete_file with FileOps._soft_delete: a missing path is not an
\* error; a soft delete moves the path into the quarantine directory; a
\* hard delete unlinks a file and fails on a directory.
delete_file(ci, tree, quarantine, p, soft, max_size_bytes, now) ==
    LET k == lookup(ci, tree, p)
        file_size == IF is_file(ci, tree, p) THEN tree[k].size ELSE dir_st_size(ci)
        fits == file_size <= max_size_bytes
        should_soft_delete == soft /\ (max_size_bytes = None \/ fits)
        moved == IF k # NoPath THEN tree[k] ELSE DirEntry(now)
    IN IF ~exists(ci, tree, p)
       THEN [ok |-> TRUE, tree |-> tree, quarantine |-> quarantine]
       ELSE IF should_soft_delete
       THEN [ok |-> TRUE, tree |-> RemoveAll(ci, tree, p, now),
             quarantine |-> quarantine \cup {[name |-> soft_delete_name(p), entry |-> moved]}]
       ELSE IF is_dir(ci, tree, p)
       THEN [ok |-> FALSE, tree |-> tree, quarantine |-> quarantine]
       ELSE [ok |-> TRUE, tree |-> TakeEntry(ci, tree, k, now), quarantine |-> quarantine]

\* FileOps(soft_delete_root=".deleted"): a path relative to the working
\* directory of the process.
soft_delete_root == <<46, 100, 101, 108, 101, 116, 101, 100>>

\* The tree of the root the process runs in, after _soft_delete moved a
\* path there: the artifact is an entry below .deleted of that tree.
soft_deleted(ci, tree, moved) ==
    IF moved = {} THEN tree
    ELSE LET artifact == CHOOSE m \in moved : TRUE
         IN WriteEntry(ci, tree, JoinPath(soft_delete_root, artifact.name), artifact.entry)

\* Path.rename of the entry with key ko to name new, which finds key kn.
\* On NTFS the rename fails when new names another entry; elsewhere it
\* replaces a file by a file and an empty directory by a directory.
rename_keys(ci, tree, ko, new, kn, now) ==
    IF ko = NoPath \/ HasEntries(ci, tree, new) \/ ~is_dir(ci, tree, PathParent(new))
    THEN Failed(tree)
    ELSE IF kn # NoPath /\ kn # ko
            /\ (ci \/ (tree[ko].size = DIR_SIZE) # (tree[kn].size = DIR_SIZE))
    THEN Failed(tree)
    ELSE [ok |-> TRUE,
          tree |-> PutEntry(TakeEntry(ci, Restrict(tree, DOMAIN tree \ {kn}), ko, now),
                            new, tree[ko])]

\* Path.rename
path_rename(ci, tree, old, new, now) ==
    rename_keys(ci, tree, lookup(ci, tree, old), new, lookup(ci, tree, new), now)

\* FileOps.rename_file, after the mkdir of the new name's parent.
rename_file_made(ci, tree, made, old_path, new_path, now) ==
    IF ~made.ok THEN Failed(tree)
    ELSE OrKeep(path_rename(ci, made.tree, old_path, new_path, now), made.tree)

\* FileOps.rename_file
rename_file(ci, tree, old_path, new_path, now) ==
    IF ~exists(ci, tree, old_path) THEN Failed(tree)
    ELSE rename_file_made(ci, tree, ensure_directory(ci, tree, PathParent(new_path), now),
                          old_path, new_path, now)

----------------------------------------------------------------------------
(* Config *)

\* Config.soft_delete_max_size_mb: the configured value, 20 when the key
\* is absent.
DEFAULT_MAX_SIZE_MB == 20

soft_delete_max_size_mb(cfg) ==
    IF cfg.max_size_mb = None THEN DEFAULT_MAX_SIZE_MB ELSE cfg.max_size_mb

\* Config.soft_delete_max_size_bytes
soft_delete_max_size_bytes(cfg) == soft_delete_max_size_mb(cfg) * 1024 * 1024

----------------------------------------------------------------------------
(* Scanner *)

\* Scanner._should_ignore: exact name, prefix, extension (case-sensitive).
_should_ignore(cfg, filename) ==
    \/ filename \in cfg.ignore_filenames_exact
    \/ \E prefix \in cfg.ignore_filenames_prefix : startswith(filename, prefix)
    \/ \E ext \in cfg.ignore_extensions : endswith(filename, ext)

\* Scanner._should_ignore_directory: names are compared in lower case.
_should_ignore_directory(cfg, dir_name) ==
    lower(dir_name) \in {lower(d) : d \in cfg.ignore_directories}

\* The scanner built by Scanner() with no arguments: it ignores nothing.
NoIgnore ==
    [ignore_filenames_exact |-> {}, ignore_filenames_prefix |-> {},
     ignore_extensions |-> {}, ignore_directories |-> {}]

\* Scanner.scan_directory: the entries of a tree that pass the ignore rules,
\* as (path, mtime, size, attrs) in the order the directory walk yields them.
\* The walk order is the filesystem's; rev chooses between two of them.
scan_directory(cfg, tree, rev) ==
    LET seen == {p \in DOMAIN tree :
                    /\ \A part \in ParentParts(p) : ~_should_ignore_directory(cfg, part)
                    /\ tree[p].size # DIR_SIZE => ~_should_ignore(cfg, PathName(p))}
        walk == IF rev THEN Reverse(SortedPaths(seen)) ELSE SortedPaths(seen)
    IN [i \in 1..Len(walk) |->
            [path |-> walk[i], mtime |-> tree[walk[i]].mtime,
             size |-> tree[walk[i]].size, attrs |-> tree[walk[i]].attrs]]

\* Lookups in a scan (a dict in insertion order).
ScanKeys(scan) == {scan[i].path : i \in DOMAIN scan}

ScanGet(scan, p) == scan[CHOOSE i \in DOMAIN scan : scan[i].path = p]

\* FileMetadata
FileMetadata(path, el, er, ml, mr, sl, sr, al, ar) ==
    [relative_path |-> path, exists_left |-> el, exists_right |-> er,
     mtime_left |-> ml, mtime_right |-> mr, size_left |-> sl, size_right |-> sr,
     attrs_left |-> al, attrs_right |-> ar]

\* FileMetadata.is_directory
is_directory(m) ==
    IF m.exists_left THEN m.size_left = DIR_SIZE ELSE m.size_right = DIR_SIZE

\* A state (previous_state, current_state, the snapshot) is a dict in
\* insertion order: a sequence of FileMetadata with distinct paths.
Keys(state) == {state[i].relative_path : i \in DOMAIN state}

Get(state, p) == state[CHOOSE i \in DOMAIN state : state[i].relative_path = p]

\* right_lower_to_actual.get(low): the LAST right key with that lower case.
RightLowerToActual(right_scan, low) ==
    LET idx == {j \in DOMAIN right_scan : lower(right_scan[j].path) = low}
    IN IF idx = {} THEN NoPath
       ELSE right_scan[CHOOSE j \in idx : \A k \in idx : k <= j].path

\* The right key matched to a left key: the exact one, else the
\* case-insensitive one unless that right key is itself a left key.
MatchedRight(left_scan, right_scan, left_path) ==
    IF left_path \in ScanKeys(right_scan) THEN left_path
    ELSE LET potential_right == RightLowerToActual(right_scan, lower(left_path))
         IN IF potential_right # NoPath /\ potential_right \in ScanKeys(left_scan)
            THEN NoPath
            ELSE potential_right

\* The loop of merge_scans over the left keys.
RECURSIVE MergeLeft(_, _, _, _)
MergeLeft(left_scan, right_scan, i, result) ==
    IF i > Len(left_scan) THEN result
    ELSE
      LET l  == left_scan[i]
          rp == MatchedRight(left_scan, right_scan, l.path)
          right_exists == rp # NoPath
          r  == IF right_exists THEN ScanGet(right_scan, rp) ELSE l
          metadata ==
              FileMetadata(l.path, TRUE, right_exists, l.mtime,
                           IF right_exists THEN r.mtime ELSE None,
                           l.size,
                           IF right_exists THEN r.size ELSE None,
                           l.attrs,
                           IF right_exists THEN r.attrs ELSE None)
          right_case_metadata ==
              FileMetadata(rp, FALSE, TRUE, None, r.mtime, None, r.size, None, r.attrs)
          with_canonical == Append(result, metadata)
          with_variant ==
              IF right_exists /\ rp # l.path /\ rp \notin Keys(with_canonical)
              THEN Append(with_canonical, right_case_metadata)
              ELSE with_canonical
      IN MergeLeft(left_scan, right_scan, i + 1, with_variant)

\* processed_right of merge_scans.
ProcessedRight(left_scan, right_scan) ==
    {MatchedRight(left_scan, right_scan, left_scan[i].path) : i \in DOMAIN left_scan}
        \ {NoPath}

\* The right loop as it would be if a right key were dropped as soon as a
\* key of the same lower case had been matched.
RECURSIVE MergeRight_by_lower_case(_, _, _, _)
MergeRight_by_lower_case(left_scan, right_scan, j, result) ==
    IF j > Len(right_scan) THEN result
    ELSE
      LET r == right_scan[j]
          metadata ==
              FileMetadata(r.path, FALSE, TRUE, None, r.mtime, None, r.size, None, r.attrs)
          matched == {lower(p) : p \in ProcessedRight(left_scan, right_scan)}
      IN MergeRight_by_lower_case(left_scan, right_scan, j + 1,
                    IF lower(r.path) \notin matched
                    THEN Append(result, metadata) ELSE result)

\* The loop of merge_scans over the right keys that no left key matched.
RECURSIVE MergeRight(_, _, _, _)
MergeRight(left_scan, right_scan, j, result) ==
    IF j > Len(right_scan) THEN result
    ELSE
      LET r == right_scan[j]
          metadata ==
              FileMetadata(r.path, FALSE, TRUE, None, r.mtime, None, r.size, None, r.attrs)
      IN MergeRight(left_scan, right_scan, j + 1,
                    IF r.path \notin ProcessedRight(left_scan, right_scan)
                    THEN Append(result, metadata) ELSE result)

\* Scanner.merge_scans
merge_scans(left_scan, right_scan) ==
    MergeRight(left_scan, right_scan, 1, MergeLeft(left_scan, right_scan, 1, << >>))

----------------------------------------------------------------------------
(* StateDB: the rows of table files, in rowid order. *)

\* One row written by save_state: the booleans become integers.
RowOf(m) ==
    [path |-> m.relative_path,
     exists_left |-> IF m.exists_left THEN 1 ELSE 0,
     exists_right |-> IF m.exists_right THEN 1 ELSE 0,
     mtime_left |-> m.mtime_left, mtime_right |-> m.mtime_right,
     size_left |-> m.size_left, size_right |-> m.size_right,
     attrs_left |-> m.attrs_left, attrs_right |-> m.attrs_right]

\* StateDB.save_state: DELETE FROM files, then one INSERT per entry.
save_state(state) == [i \in 1..Len(state) |-> RowOf(state[i])]

\* StateDB.load_state: one FileMetadata per row, bool() of the integers.
load_state(rows) ==
    [i \in 1..Len(rows) |->
        FileMetadata(rows[i].path, rows[i].exists_left # 0, rows[i].exists_right # 0,
                     rows[i].mtime_left, rows[i].mtime_right,
                     rows[i].size_left, rows[i].size_right,
                     rows[i].attrs_left, rows[i].attrs_right)]

----------------------------------------------------------------------------
(* SyncJob *)

NoPayload ==
    [prev_path |-> NoPath, left_mtime |-> None, right_mtime |-> None,
     left_bytes |-> None, right_bytes |-> None]

SyncJob(action, file_path, src_path, dst_path, payload) ==
    [action |-> action, file_path |-> file_path, src_path |-> src_path,
     dst_path |-> dst_path, payload |-> payload]

Job(action, file_path) == SyncJob(action, file_path, NoPath, NoPath, NoPayload)

\* The file contents the model distinguishes are their lengths.
\* SyncEngine._safe_read_bytes: None when the path cannot be read as a file.
_safe_read_bytes(ci, tree, p) ==
    IF is_file(ci, tree, p) THEN tree[lookup(ci, tree, p)].size ELSE None

\* case_snapshot.get(var) after the snapshot loops of generate_sync_jobs and
\* _detect_case_changes: the left file of that name, else the right one.
case_snapshot(ci, left_tree, right_tree, var) ==
    IF exists(ci, left_tree, var) THEN _safe_read_bytes(ci, left_tree, var)
    ELSE IF exists(ci, right_tree, var) THEN _safe_read_bytes(ci, right_tree, var)
    ELSE None

----------------------------------------------------------------------------
(* ConflictDetector *)

\* The test as it would be if two edits made within the tolerance of each
\* other counted as one.
_was_modified_both_sides_apart(prev, curr) ==
    /\ curr.exists_left /\ Truthy(prev.mtime_left)
    /\ Or0(curr.mtime_left) > prev.mtime_left
    /\ curr.exists_right /\ Truthy(prev.mtime_right)
    /\ Or0(curr.mtime_right) > prev.mtime_right
    /\ Or0(curr.mtime_left) - Or0(curr.mtime_right) \notin -1..1

\* ConflictDetector._was_modified_both_sides
_was_modified_both_sides(prev, curr) ==
    LET left_changed ==
            /\ curr.exists_left /\ Truthy(prev.mtime_left)
            /\ Or0(curr.mtime_left) > prev.mtime_left
        right_changed ==
            /\ curr.exists_right /\ Truthy(prev.mtime_right)
            /\ Or0(curr.mtime_right) > prev.mtime_right
    IN left_changed /\ right_changed

\* ConflictDetector._is_same_content
_is_same_content(metadata) ==
    /\ metadata.exists_left /\ metadata.exists_right
    /\ metadata.size_left = metadata.size_right
    /\ metadata.mtime_left = metadata.mtime_right

\* abs(x)
Abs(x) == IF x < 0 THEN 0 - x ELSE x

Max2(x, y) == IF x >= y THEN x ELSE y

\* ConflictDetector._has_metadata_conflict: the sizes differ by more than
\* 1 % of the larger one (diff / max > 0.01, for an integer diff).
_has_metadata_conflict(curr) ==
    /\ curr.exists_left /\ curr.exists_right
    /\ curr.size_left # curr.size_right
    /\ Truthy(curr.size_left) /\ Truthy(curr.size_right)
    /\ LET diff == Abs(curr.size_left - curr.size_right)
           larger == Max2(curr.size_left, curr.size_right)
       IN diff > larger \div 100

\* The conflict type detect_conflicts records for one current entry, or
\* "none": a later assignment to conflicts[path] replaces an earlier one.
ConflictTypeOf(previous_state, curr) ==
    IF curr.relative_path \notin Keys(previous_state)
    THEN IF curr.exists_left /\ curr.exists_right /\ ~_is_same_content(curr)
         THEN "new_new" ELSE "none"
    ELSE LET prev == Get(previous_state, curr.relative_path)
         IN IF _has_metadata_conflict(curr) THEN "metadata_conflict"
            ELSE IF _was_modified_both_sides(prev, curr) /\ ~_is_same_content(curr)
                 THEN "modify_modify"
            ELSE "none"

\* ConflictDetector.detect_conflicts: the conflicted entries in the order
\* of current_state.
detect_conflicts(previous_state, current_state) ==
    LET Conflicted(m) == ConflictTypeOf(previous_state, m) # "none"
    IN SelectSeq(current_state, Conflicted)

\* The resolution as it would be if the left side won a tie of mtimes.
resolve_conflict_left_on_tie(metadata, policy) ==
    IF policy = "notify_only" THEN "NOTIFY"
    ELSE IF policy = "overwrite_newer"
    THEN IF Or0(metadata.mtime_left) >= Or0(metadata.mtime_right) THEN "COPY_LEFT_TO_RIGHT"
         ELSE "COPY_RIGHT_TO_LEFT"
    ELSE "CLASH_CREATE"

\* ConflictDetector.resolve_conflict
resolve_conflict(metadata, policy) ==
    IF policy = "notify_only" THEN "NOTIFY"
    ELSE IF policy = "overwrite_newer"
    THEN IF Or0(metadata.mtime_left) > Or0(metadata.mtime_right) THEN "COPY_LEFT_TO_RIGHT"
         ELSE IF Or0(metadata.mtime_right) > Or0(metadata.mtime_left) THEN "COPY_RIGHT_TO_LEFT"
         ELSE "NOOP"
    ELSE "CLASH_CREATE"

----------------------------------------------------------------------------
(* SyncEngine: case changes and case conflicts *)

KeySeq(state) == [i \in 1..Len(state) |-> state[i].relative_path]

\* The first key of seq keys that satisfies the test is keys[FirstIndex].
FirstIndex(idx) == CHOOSE i \in idx : \A j \in idx : i <= j

\* SyncEngine._group_by_lower_case: the variants of one lower-case key, in
\* the order of current_state ...
Variants(current_state, low) ==
    LET SameLower(p) == lower(p) = low
    IN SelectSeq(KeySeq(current_state), SameLower)

\* ... and the lower-case keys in the order they were first inserted.
RECURSIVE LowerKeys(_, _, _)
LowerKeys(keys, i, acc) ==
    IF i > Len(keys) THEN acc
    ELSE LowerKeys(keys, i + 1,
                   IF lower(keys[i]) \in SeqToSet(acc) THEN acc
                   ELSE Append(acc, lower(keys[i])))

\* for p in previous_state.keys(): if p.lower() == path_lower: break
PrevByLower(previous_state, path_lower) ==
    LET idx == {i \in DOMAIN previous_state :
                    lower(previous_state[i].relative_path) = path_lower}
    IN IF idx = {} THEN NoPath ELSE previous_state[FirstIndex(idx)].relative_path

\* The first loop of _detect_case_changes for one bucket: TRUE when the
\* bucket is recorded in case_conflicts.
IsCaseConflict(previous_state, current_state, path_lower) ==
    LET variants == Variants(current_state, path_lower)
        left_var == variants[1]
        right_var == variants[2]
        meta_left == Get(current_state, left_var)
        meta_right == Get(current_state, right_var)
        prev_path == PrevByLower(previous_state, path_lower)
        left_changed_case == left_var # prev_path /\ meta_left.exists_left
        right_changed_case == right_var # prev_path /\ meta_right.exists_right
    IN /\ Len(variants) = 2
       /\ prev_path # NoPath
       /\ \/ left_changed_case /\ right_changed_case /\ left_var # right_var
          \/ left_changed_case /\ ~right_changed_case
          \/ right_changed_case /\ ~left_changed_case

\* case_conflicts: prev_path -> (left_case, right_case), in bucket order.
CaseConflicts(previous_state, current_state) ==
    LET buckets == LowerKeys(KeySeq(current_state), 1, << >>)
        Conflicting(low) == IsCaseConflict(previous_state, current_state, low)
        hit == SelectSeq(buckets, Conflicting)
    IN [i \in 1..Len(hit) |->
           [prev_path |-> PrevByLower(previous_state, hit[i]),
            left_case |-> Variants(current_state, hit[i])[1],
            right_case |-> Variants(current_state, hit[i])[2]]]

\* The local set processed of _detect_case_changes after its first loop.
CaseConflictPaths(case_conflicts) ==
    UNION {{case_conflicts[i].prev_path, case_conflicts[i].left_case,
            case_conflicts[i].right_case} : i \in DOMAIN case_conflicts}

\* The previous key that differs from curr_path only by case (the first
\* one in the order of previous_state), or NoPath.
OtherCaseInPrev(previous_state, curr_path) ==
    LET idx == {i \in DOMAIN previous_state :
                    /\ lower(previous_state[i].relative_path) = lower(curr_path)
                    /\ previous_state[i].relative_path # curr_path}
    IN IF idx = {} THEN NoPath ELSE previous_state[FirstIndex(idx)].relative_path

\* The second loop of _detect_case_changes: case_changes, curr_path ->
\* prev_path, in the order of current_state.
RECURSIVE CaseChangeLoop(_, _, _, _, _)
CaseChangeLoop(previous_state, current_state, i, processed, case_changes) ==
    IF i > Len(current_state) THEN case_changes
    ELSE
      LET curr_path == current_state[i].relative_path
          prev_path == OtherCaseInPrev(previous_state, curr_path)
      IN IF \/ curr_path \in processed
            \/ curr_path \in Keys(previous_state)
            \/ prev_path = NoPath
            \/ prev_path \in processed
         THEN CaseChangeLoop(previous_state, current_state, i + 1, processed, case_changes)
         ELSE CaseChangeLoop(previous_state, current_state, i + 1,
                             processed \cup {prev_path, curr_path},
                             Append(case_changes,
                                    [curr_path |-> curr_path, prev_path |-> prev_path]))

\* SyncEngine._detect_case_changes
_detect_case_changes(previous_state, current_state) ==
    LET case_conflicts == CaseConflicts(previous_state, current_state)
    IN [case_conflicts |-> case_conflicts,
        case_changes |-> CaseChangeLoop(previous_state, current_state, 1,
                                        CaseConflictPaths(case_conflicts), << >>)]

\* x or y on optional numbers
OrElse(x, y) == IF Truthy(x) THEN x ELSE y

\* SyncEngine._handle_case_conflict: one CASE_CONFLICT job whose payload
\* holds the two mtimes of current_state and the two contents read now.
_handle_case_conflict(ci, current_state, left_tree, right_tree, prev_path, left_case, right_case) ==
    LET left_meta == Get(current_state, left_case)
        right_meta == Get(current_state, right_case)
        left_bytes_snapshot == case_snapshot(ci, left_tree, right_tree, left_case)
        right_bytes_snapshot == case_snapshot(ci, left_tree, right_tree, right_case)
    IN << SyncJob("CASE_CONFLICT", left_case, right_case, NoPath,
            [prev_path |-> prev_path,
             left_mtime |-> OrElse(left_meta.mtime_left, left_meta.mtime_right),
             right_mtime |-> OrElse(right_meta.mtime_right, right_meta.mtime_left),
             left_bytes |-> IF left_bytes_snapshot # None THEN left_bytes_snapshot
                            ELSE _safe_read_bytes(ci, left_tree, left_case),
             right_bytes |-> IF right_bytes_snapshot # None THEN right_bytes_snapshot
                             ELSE _safe_read_bytes(ci, right_tree, right_case)]) >>

\* SyncEngine._handle_case_change
_handle_case_change(current_state, prev_path, curr_path) ==
    LET curr_meta == Get(current_state, curr_path)
    IN IF curr_meta.exists_left /\ curr_meta.exists_right
       THEN << SyncJob("RENAME_RIGHT", prev_path, NoPath, curr_path, NoPayload) >>
       ELSE IF curr_meta.exists_left /\ ~curr_meta.exists_right
       THEN << >>
       ELSE IF curr_meta.exists_right /\ ~curr_meta.exists_left
       THEN << SyncJob("RENAME_LEFT", prev_path, NoPath, curr_path, NoPayload) >>
       ELSE << >>

----------------------------------------------------------------------------
(* SyncEngine: renames *)

\* The keys (side, mtime, size) under which one entry is filed.
SideKeys(m) ==
    (IF m.exists_left
     THEN << [side |-> "left", mtime |-> m.mtime_left, size |-> m.size_left] >>
     ELSE << >>)
    \o
    (IF m.exists_right
     THEN << [side |-> "right", mtime |-> m.mtime_right, size |-> m.size_right] >>
     ELSE << >>)

\* The entries of state whose path is not a key of other.
NotIn(state, other) ==
    LET Missing(m) == m.relative_path \notin Keys(other)
    IN SelectSeq(state, Missing)

\* disappeared[key] / appeared[key]: the paths filed under key, in order.
FiledUnder(entries, key) ==
    LET Filed(m) == key \in SeqToSet(SideKeys(m))
    IN KeySeq(SelectSeq(entries, Filed))

\* The keys of dict appeared in insertion order.
RECURSIVE AppearedKeys(_, _, _)
AppearedKeys(entries, i, acc) ==
    IF i > Len(entries) THEN acc
    ELSE LET NewKey(k) == k \notin SeqToSet(acc)
             fresh == SelectSeq(SideKeys(entries[i]), NewKey)
         IN AppearedKeys(entries, i + 1, acc \o fresh)

\* The matching loop of _detect_renames: one (old_path, side, new_path) per
\* key under which exactly one path disappeared and exactly one appeared.
RenameCandidates(previous_state, current_state) ==
    LET disappeared == NotIn(previous_state, current_state)
        appeared == NotIn(current_state, previous_state)
        keys == AppearedKeys(appeared, 1, << >>)
        OneToOne(k) == /\ Len(FiledUnder(appeared, k)) = 1
                       /\ Len(FiledUnder(disappeared, k)) = 1
        matched == SelectSeq(keys, OneToOne)
    IN [i \in 1..Len(matched) |->
           [old_path |-> FiledUnder(disappeared, matched[i])[1],
            side |-> matched[i].side,
            new_path |-> FiledUnder(appeared, matched[i])[1]]]

\* The keys of renames_by_original in insertion order.
RECURSIVE OriginalPaths(_, _, _)
OriginalPaths(cands, i, acc) ==
    IF i > Len(cands) THEN acc
    ELSE OriginalPaths(cands, i + 1,
                       IF cands[i].old_path \in SeqToSet(acc) THEN acc
                       ELSE Append(acc, cands[i].old_path))

\* renames_by_original[old_path]
RenamesOf(cands, old_path) ==
    LET Mine(c) == c.old_path = old_path
    IN SelectSeq(cands, Mine)

\* TRUE when the two sides renamed old_path to different names.
IsRenameConflict(renames) ==
    /\ Len(renames) = 2
    /\ \E i, j \in DOMAIN renames :
          /\ renames[i].side = "left" /\ renames[j].side = "right"
          /\ renames[i].new_path # renames[j].new_path

NewNameOn(renames, side) ==
    renames[FirstIndex({i \in DOMAIN renames : renames[i].side = side})].new_path

\* SyncEngine._detect_renames
_detect_renames(previous_state, current_state) ==
    LET cands == RenameCandidates(previous_state, current_state)
        olds == OriginalPaths(cands, 1, << >>)
        Conflicting(old) == IsRenameConflict(RenamesOf(cands, old))
        Clean(old) == ~IsRenameConflict(RenamesOf(cands, old))
        conflicting == SelectSeq(olds, Conflicting)
        clean == SelectSeq(olds, Clean)
    IN [rename_conflicts |->
           [i \in 1..Len(conflicting) |->
               [old_path |-> conflicting[i],
                left_new |-> NewNameOn(RenamesOf(cands, conflicting[i]), "left"),
                right_new |-> NewNameOn(RenamesOf(cands, conflicting[i]), "right")]],
        rename_map |->
           [i \in 1..Len(clean) |->
               [old_path |-> clean[i],
                new_path |-> LET r == RenamesOf(cands, clean[i]) IN r[Len(r)].new_path]]]

\* The handler as it would be if it kept the right side's name.
_handle_rename_conflict_right_kept(old_path, left_new, right_new) ==
    << SyncJob("RENAME_CONFLICT", left_new, right_new, NoPath, NoPayload) >>

\* SyncEngine._handle_rename_conflict
_handle_rename_conflict(old_path, left_new, right_new) ==
    << SyncJob("RENAME_CONFLICT", right_new, left_new, NoPath, NoPayload) >>

\* SyncEngine._handle_rename
_handle_rename(current_state, old_path, new_path) ==
    LET curr_meta == Get(current_state, new_path)
    IN IF curr_meta.exists_left /\ ~curr_meta.exists_right
       THEN << Job("COPY_LEFT_TO_RIGHT", new_path), Job("DELETE_RIGHT", old_path) >>
       ELSE IF curr_meta.exists_right /\ ~curr_meta.exists_left
       THEN << Job("COPY_RIGHT_TO_LEFT", new_path), Job("DELETE_LEFT", old_path) >>
       ELSE << >>

----------------------------------------------------------------------------
(* SyncEngine: content conflicts and the per-path rules *)

\* SyncEngine._handle_conflict
_handle_conflict(cfg, file_path, conflict_type, metadata) ==
    LET policy_str ==
            IF conflict_type = "modify_modify" THEN cfg.conflict_policy_modify_modify
            ELSE IF conflict_type = "new_new" THEN cfg.conflict_policy_new_new
            ELSE cfg.conflict_policy_metadata_conflict
        policy == IF policy_str \in {"clash", "notify_only", "overwrite_newer"}
                  THEN policy_str ELSE "clash"
        action == resolve_conflict(metadata, policy)
    IN IF action = "CLASH_CREATE" THEN << Job("CLASH_CREATE", file_path) >>
       ELSE IF action = "COPY_LEFT_TO_RIGHT" THEN << Job("COPY_LEFT_TO_RIGHT", file_path) >>
       ELSE IF action = "COPY_RIGHT_TO_LEFT" THEN << Job("COPY_RIGHT_TO_LEFT", file_path) >>
       ELSE IF action = "NOTIFY" THEN << Job("NOOP", file_path) >>
       ELSE << >>

\* The soft-delete test of _apply_sync_rules on the size the previous state
\* records for the side that lost the file.
SoftDeleteApplies(cfg, prev_size) ==
    /\ cfg.soft_delete_enabled
    /\ \/ soft_delete_max_size_bytes(cfg) = None
       \/ Or0(prev_size) <= soft_delete_max_size_bytes(cfg)

\* The rules as they would be if the previous state were not consulted: a
\* file on one side only is always copied to the other.
_apply_sync_rules_without_previous(cfg, file_path, has_prev, prev_metadata, curr_metadata) ==
    IF is_directory(curr_metadata) THEN << >>
    ELSE IF curr_metadata.exists_left /\ ~curr_metadata.exists_right
    THEN << Job("COPY_LEFT_TO_RIGHT", file_path) >>
    ELSE IF curr_metadata.exists_right /\ ~curr_metadata.exists_left
    THEN << Job("COPY_RIGHT_TO_LEFT", file_path) >>
    ELSE << >>

\* SyncEngine._apply_sync_rules; prev_metadata is None when has_prev is FALSE.
_apply_sync_rules(cfg, file_path, has_prev, prev_metadata, curr_metadata) ==
    IF is_directory(curr_metadata)
    THEN IF curr_metadata.exists_left /\ ~curr_metadata.exists_right
         THEN << Job("CREATE_DIR_RIGHT", file_path) >>
         ELSE IF curr_metadata.exists_right /\ ~curr_metadata.exists_left
         THEN << Job("CREATE_DIR_LEFT", file_path) >>
         ELSE << >>
    ELSE IF curr_metadata.exists_left /\ ~curr_metadata.exists_right
    THEN IF ~has_prev
         THEN << Job("COPY_LEFT_TO_RIGHT", file_path) >>
         ELSE IF prev_metadata.exists_right /\ ~curr_metadata.exists_right
         THEN IF prev_metadata.mtime_left = curr_metadata.mtime_left
              THEN IF SoftDeleteApplies(cfg, prev_metadata.size_right)
                   THEN << Job("SOFT_DELETE_LEFT", file_path) >>
                   ELSE << Job("DELETE_LEFT", file_path) >>
              ELSE << Job("COPY_LEFT_TO_RIGHT", file_path) >>
         ELSE << >>
    ELSE IF curr_metadata.exists_right /\ ~curr_metadata.exists_left
    THEN IF ~has_prev
         THEN << Job("COPY_RIGHT_TO_LEFT", file_path) >>
         ELSE IF prev_metadata.exists_left /\ ~curr_metadata.exists_left
         THEN IF prev_metadata.mtime_right = curr_metadata.mtime_right
              THEN IF SoftDeleteApplies(cfg, prev_metadata.size_left)
                   THEN << Job("SOFT_DELETE_RIGHT", file_path) >>
                   ELSE << Job("DELETE_RIGHT", file_path) >>
              ELSE << Job("COPY_RIGHT_TO_LEFT", file_path) >>
         ELSE << >>
    ELSE IF curr_metadata.exists_left /\ curr_metadata.exists_right
    THEN LET left_changed ==
                 has_prev /\ Or0(curr_metadata.mtime_left) > Or0(prev_metadata.mtime_left)
             right_changed ==
                 has_prev /\ Or0(curr_metadata.mtime_right) > Or0(prev_metadata.mtime_right)
         IN IF left_changed /\ ~right_changed
            THEN << Job("COPY_LEFT_TO_RIGHT", file_path) >>
            ELSE IF right_changed /\ ~left_changed
            THEN << Job("COPY_RIGHT_TO_LEFT", file_path) >>
            ELSE << >>
    ELSE << >>

----------------------------------------------------------------------------
(* SyncEngine.generate_sync_jobs, phase by phase.  Each phase is given the *)
(* set processed as the phases before it left it.                          *)

\* Flatten a sequence of job lists.
RECURSIVE Concat(_)
Concat(lists) == IF lists = << >> THEN << >> ELSE Head(lists) \o Concat(Tail(lists))

\* The case-conflict loop.
CaseConflictPhase(ci, current_state, left_tree, right_tree, case_conflicts) ==
    [jobs |-> Concat([i \in 1..Len(case_conflicts) |->
                        _handle_case_conflict(ci, current_state, left_tree, right_tree,
                                              case_conflicts[i].prev_path,
                                              case_conflicts[i].left_case,
                                              case_conflicts[i].right_case)]),
     processed |-> UNION {{case_conflicts[i].prev_path,
                           case_conflicts[i].left_case,
                           case_conflicts[i].right_case,
                           lower(case_conflicts[i].left_case),
                           lower(case_conflicts[i].right_case)} :
                          i \in DOMAIN case_conflicts}]

\* The case-change loop.
CaseChangePhase(current_state, case_changes) ==
    [jobs |-> Concat([i \in 1..Len(case_changes) |->
                        _handle_case_change(current_state, case_changes[i].prev_path,
                                            case_changes[i].curr_path)]),
     processed |-> UNION {{case_changes[i].prev_path, case_changes[i].curr_path} :
                          i \in DOMAIN case_changes}]

\* The rename-conflict loop: a conflict is skipped when one of its three
\* paths is already processed.
RECURSIVE RenameConflictPhase(_, _, _, _)
RenameConflictPhase(rename_conflicts, i, processed, jobs) ==
    IF i > Len(rename_conflicts) THEN [jobs |-> jobs, processed |-> processed]
    ELSE LET c == rename_conflicts[i]
         IN IF c.old_path \in processed \/ c.left_new \in processed
                \/ c.right_new \in processed
            THEN RenameConflictPhase(rename_conflicts, i + 1, processed, jobs)
            ELSE RenameConflictPhase(rename_conflicts, i + 1,
                     processed \cup {c.old_path, c.left_new, c.right_new},
                     jobs \o _handle_rename_conflict(c.old_path, c.left_new, c.right_new))

\* The clean-rename loop.
RECURSIVE RenamePhase(_, _, _, _, _)
RenamePhase(current_state, rename_map, i, processed, jobs) ==
    IF i > Len(rename_map) THEN [jobs |-> jobs, processed |-> processed]
    ELSE LET r == rename_map[i]
         IN IF r.old_path \in processed \/ r.new_path \in processed
            THEN RenamePhase(current_state, rename_map, i + 1, processed, jobs)
            ELSE RenamePhase(current_state, rename_map, i + 1,
                     processed \cup {r.old_path, r.new_path},
                     jobs \o _handle_rename(current_state, r.old_path, r.new_path))

\* The content-conflict loop: it does not consult processed.
ConflictPhase(cfg, previous_state, current_state) ==
    LET conflicts == detect_conflicts(previous_state, current_state)
    IN [jobs |-> Concat([i \in 1..Len(conflicts) |->
                           _handle_conflict(cfg, conflicts[i].relative_path,
                                            ConflictTypeOf(previous_state, conflicts[i]),
                                            conflicts[i])]),
        processed |-> Keys(conflicts)]

\* The per-path loop over current_state: a path is skipped when it, or a
\* path equal to it in lower case, is in processed.
RulePhase(cfg, previous_state, current_state, processed) ==
    LET JobsFor(m) ==
            IF \/ m.relative_path \in processed
               \/ lower(m.relative_path) \in {lower(q) : q \in processed}
            THEN << >>
            ELSE LET has_prev == m.relative_path \in Keys(previous_state)
                 IN _apply_sync_rules(cfg, m.relative_path, has_prev,
                                      IF has_prev THEN Get(previous_state, m.relative_path)
                                      ELSE m,
                                      m)
    IN Concat([i \in 1..Len(current_state) |-> JobsFor(current_state[i])])

\* The sweep as it would be if it deleted a gone directory on both sides
\* whatever sides the previous state records.
DirectorySweep_on_both_sides(previous_state, current_state, processed) ==
    LET JobsFor(prev_metadata) ==
            IF \/ prev_metadata.relative_path \in processed
               \/ prev_metadata.relative_path \in Keys(current_state)
               \/ ~is_directory(prev_metadata)
            THEN << >>
            ELSE << Job("DELETE_DIR_LEFT", prev_metadata.relative_path),
                    Job("DELETE_DIR_RIGHT", prev_metadata.relative_path) >>
    IN Concat([i \in 1..Len(previous_state) |-> JobsFor(previous_state[i])])

\* The sweep over previous_state for directories that are gone.
DirectorySweep(previous_state, current_state, processed) ==
    LET JobsFor(prev_metadata) ==
            IF \/ prev_metadata.relative_path \in processed
               \/ prev_metadata.relative_path \in Keys(current_state)
               \/ ~is_directory(prev_metadata)
            THEN << >>
            ELSE IF prev_metadata.exists_left /\ ~prev_metadata.exists_right
            THEN << Job("DELETE_DIR_LEFT", prev_metadata.relative_path) >>
            ELSE IF prev_metadata.exists_right /\ ~prev_metadata.exists_left
            THEN << Job("DELETE_DIR_RIGHT", prev_metadata.relative_path) >>
            ELSE IF prev_metadata.exists_left /\ prev_metadata.exists_right
            THEN << Job("DELETE_DIR_LEFT", prev_metadata.relative_path),
                    Job("DELETE_DIR_RIGHT", prev_metadata.relative_path) >>
            ELSE << >>
    IN Concat([i \in 1..Len(previous_state) |-> JobsFor(previous_state[i])])

\* The job lists of the phases, in the order generate_sync_jobs appends
\* them.  Each step adds the jobs of its phase and the paths it claims to
\* the record of the phases before it.
CaseSteps(ci, current_state, left_tree, right_tree, cases) ==
    [case_conflict |->
        CaseConflictPhase(ci, current_state, left_tree, right_tree,
                          cases.case_conflicts).jobs,
     case_change |-> CaseChangePhase(current_state, cases.case_changes).jobs,
     processed |->
        CaseConflictPhase(ci, current_state, left_tree, right_tree,
                          cases.case_conflicts).processed
        \cup CaseChangePhase(current_state, cases.case_changes).processed]

WithRenameConflicts(ph, p3) ==
    [case_conflict |-> ph.case_conflict, case_change |-> ph.case_change,
     rename_conflict |-> p3.jobs, processed |-> p3.processed]

WithRenames(ph, p4) ==
    [case_conflict |-> ph.case_conflict, case_change |-> ph.case_change,
     rename_conflict |-> ph.rename_conflict, rename |-> p4.jobs,
     processed |-> p4.processed]

RenameSteps(current_state, renames, ph) ==
    WithRenames(WithRenameConflicts(ph,
                    RenameConflictPhase(renames.rename_conflicts, 1, ph.processed, << >>)),
                RenamePhase(current_state, renames.rename_map, 1,
                    RenameConflictPhase(renames.rename_conflicts, 1,
                                        ph.processed, << >>).processed,
                    << >>))

WithConflicts(ph, p5) ==
    [case_conflict |-> ph.case_conflict, case_change |-> ph.case_change,
     rename_conflict |-> ph.rename_conflict, rename |-> ph.rename,
     conflict |-> p5.jobs, processed |-> ph.processed \cup p5.processed]

LastSteps(cfg, previous_state, current_state, ph) ==
    [case_conflict |-> ph.case_conflict, case_change |-> ph.case_change,
     rename_conflict |-> ph.rename_conflict, rename |-> ph.rename,
     conflict |-> ph.conflict,
     rule |-> RulePhase(cfg, previous_state, current_state, ph.processed),
     directory |-> DirectorySweep(previous_state, current_state, ph.processed)]

Phases(cfg, ci, previous_state, current_state, left_tree, right_tree) ==
    LastSteps(cfg, previous_state, current_state,
        WithConflicts(
            RenameSteps(current_state, _detect_renames(previous_state, current_state),
                CaseSteps(ci, current_state, left_tree, right_tree,
                          _detect_case_changes(previous_state, current_state))),
            ConflictPhase(cfg, previous_state, current_state)))

\* The job list as it would be if the per-path rules came before the
\* renames and the content conflicts.
JobsOf_rules_first(ph) ==
    ph.case_conflict \o ph.case_change \o ph.rename_conflict \o ph.rule
        \o ph.rename \o ph.conflict \o ph.directory

\* The job list: the phases' lists, one after the other.
JobsOf(ph) ==
    ph.case_conflict \o ph.case_change \o ph.rename_conflict \o ph.rename
        \o ph.conflict \o ph.rule \o ph.directory

\* SyncEngine.generate_sync_jobs
generate_sync_jobs(cfg, ci, previous_state, current_state, left_tree, right_tree) ==
    JobsOf(Phases(cfg, ci, previous_state, current_state, left_tree, right_tree))

----------------------------------------------------------------------------
(* SyncRunner._execute_job.  The result carries the return value (ok), the *)
(* two trees and the quarantine directory as the job left them (a failed   *)
(* job keeps what it did before it failed), the conflict alerts it adds    *)
(* and the flag content_conflicts_detected.                                *)

JobResult(ok, left_tree, right_tree, quarantine, alerts, ccd) ==
    [ok |-> ok, left |-> left_tree, right |-> right_tree,
     quarantine |-> quarantine, alerts |-> alerts, ccd |-> ccd]

ConflictAlert(file_path, conflict_type) ==
    [file_path |-> file_path, conflict_type |-> conflict_type]

\* Membership in a state.
Has(state, p) == p \in Keys(state)

\* COPY_LEFT_TO_RIGHT and COPY_RIGHT_TO_LEFT: ensure_directory of the
\* parent, then copy_file.  The result is the destination tree.
ExecCopyMade(ci, src_tree, made, p, now) ==
    IF ~made.ok THEN made ELSE copy_file(ci, src_tree, p, made.tree, p, now)

ExecCopy(ci, src_tree, dst_tree, p, now) ==
    ExecCopyMade(ci, src_tree, ensure_directory(ci, dst_tree, PathParent(p), now), p, now)

\* The CLASH_CREATE handler on the side `older`, with `newer` the other
\* side: the artifact is made beside the older file, then the newer file
\* is copied over it.
ExecClashMade(ci, newer_tree, made, p, now) ==
    IF ~made.ok THEN made ELSE copy_file(ci, newer_tree, p, made.tree, p, now)

ExecClash(ci, newer_tree, older_tree, p, now) ==
    ExecClashMade(ci, newer_tree, create_clash_file(ci, older_tree, p), p, now)

\* The name "<stem>.case_tmp.<uuid><suffix>" of the temporary hop: ".t".
case_tmp_path(desired) ==
    JoinPath(PathParent(desired), PathStem(desired) \o <<46, 116>> \o PathSuffix(desired))

\* _force_case_rename inside the CASE_CONFLICT handler: rename through a
\* temporary name; a failure is logged and leaves what was done.
case_rename_hopped(ci, hop, before, desired, now) ==
    IF ~hop.ok THEN before
    ELSE path_rename(ci, hop.tree, case_tmp_path(desired), desired, now).tree

case_rename_made(ci, tree, made, existing, desired, now) ==
    IF ~made.ok THEN tree
    ELSE case_rename_hopped(ci,
             path_rename(ci, made.tree, existing, case_tmp_path(desired), now),
             made.tree, desired, now)

_force_case_rename(ci, tree, existing, desired, now) ==
    IF ~exists(ci, tree, existing) \/ PathName(existing) = PathName(desired)
    THEN tree
    ELSE case_rename_made(ci, tree, ensure_directory(ci, tree, PathParent(desired), now),
                          existing, desired, now)

\* The name of the artifact of a case conflict, directly below the root.
case_conflict_name(p) == PathStem(p) \o CONFLICT_TAG \o PathSuffix(p)

\* Path.write_bytes followed by os.utime when older_mtime is truthy.
write_bytes(ci, tree, p, bytes, older_mtime, now) ==
    IF is_dir(ci, tree, p) THEN [ok |-> FALSE, tree |-> tree]
    ELSE [ok |-> TRUE,
          tree |-> WriteEntry(ci, tree, p,
                     [mtime |-> IF Truthy(older_mtime) THEN older_mtime ELSE now,
                      size |-> bytes,
                      attrs |-> IF lookup(ci, tree, p) # NoPath
                                THEN tree[lookup(ci, tree, p)].attrs ELSE 0])]

\* st_mtime of a path, 0 when it does not exist.
stat_mtime(ci, tree, p, now) ==
    IF lookup(ci, tree, p) # NoPath THEN tree[lookup(ci, tree, p)].mtime
    ELSE IF exists(ci, tree, p) THEN now ELSE 0

\* The CASE_CONFLICT handler: job.file_path is the left case, job.src_path
\* the right case.  The newer variant (the left one on a tie) is copied to
\* the other side under its own case, the other side's file is renamed to
\* that case, and the older content is written as an artifact on both
\* sides.  Every failure returns False.

\* The end of the handler: the two artifacts are written.
CaseConflictWritten(job, left1, right1, left2, right2, quarantine, ccd) ==
    IF ~left2.ok THEN JobResult(FALSE, left1, right1, quarantine, << >>, ccd)
    ELSE IF ~right2.ok THEN JobResult(FALSE, left2.tree, right1, quarantine, << >>, ccd)
    ELSE JobResult(TRUE, left2.tree, right2.tree, quarantine,
                   << ConflictAlert(job.file_path, "case_conflict") >>, FALSE)

CaseConflictArtifacts(ci, job, left1, right1, conflict_name, older_bytes, older_mtime, quarantine, ccd, now) ==
    CaseConflictWritten(job, left1, right1,
        write_bytes(ci, left1, conflict_name, older_bytes, older_mtime, now),
        write_bytes(ci, right1, conflict_name, older_bytes, older_mtime, now),
        quarantine, ccd)

\* The left variant wins: it was copied to the right root.
CaseConflictLeftCopied(ci, job, left_tree, copied, older_bytes, older_mtime, quarantine, ccd, now) ==
    IF ~copied.ok
    THEN JobResult(FALSE, left_tree, copied.tree, quarantine, << >>, ccd)
    ELSE CaseConflictArtifacts(ci, job, left_tree,
             _force_case_rename(ci, copied.tree, job.src_path, job.file_path, now),
             case_conflict_name(job.src_path), older_bytes, older_mtime,
             quarantine, ccd, now)

\* The right variant wins: it was copied to the left root.
CaseConflictRightCopied(ci, job, copied, right_tree, older_bytes, older_mtime, quarantine, ccd, now) ==
    IF ~copied.ok
    THEN JobResult(FALSE, copied.tree, right_tree, quarantine, << >>, ccd)
    ELSE CaseConflictArtifacts(ci, job,
             _force_case_rename(ci, copied.tree, job.file_path, job.src_path, now),
             _force_case_rename(ci, right_tree, job.src_path, job.src_path, now),
             case_conflict_name(job.file_path), older_bytes, older_mtime,
             quarantine, ccd, now)

CaseConflictWinner(ci, job, left_tree, right_tree, winner_is_left, older_bytes, older_mtime, quarantine, ccd, now) ==
    IF older_bytes = None
    THEN JobResult(FALSE, left_tree, right_tree, quarantine, << >>, ccd)
    ELSE IF winner_is_left
    THEN CaseConflictLeftCopied(ci, job, left_tree,
             copy_file(ci, left_tree, job.file_path, right_tree, job.file_path, now),
             older_bytes, older_mtime, quarantine, ccd, now)
    ELSE CaseConflictRightCopied(ci, job,
             copy_file(ci, right_tree, job.src_path, left_tree, job.src_path, now),
             right_tree, older_bytes, older_mtime, quarantine, ccd, now)

\* _resolve_bytes: the cached bytes, else the bytes of the file.
_resolve_bytes(ci, tree, p, cached) ==
    IF cached # None THEN cached ELSE _safe_read_bytes(ci, tree, p)

CaseConflictTimes(ci, job, left_tree, right_tree, left_mtime, right_mtime, quarantine, ccd, now) ==
    IF left_mtime > right_mtime \/ left_mtime = right_mtime
    THEN CaseConflictWinner(ci, job, left_tree, right_tree, TRUE,
             _resolve_bytes(ci, right_tree, job.src_path, job.payload.right_bytes),
             right_mtime, quarantine, ccd, now)
    ELSE CaseConflictWinner(ci, job, left_tree, right_tree, FALSE,
             _resolve_bytes(ci, left_tree, job.file_path, job.payload.left_bytes),
             left_mtime, quarantine, ccd, now)

ExecCaseConflict(ci, job, left_tree, right_tree, quarantine, ccd, now) ==
    CaseConflictTimes(ci, job, left_tree, right_tree,
        IF job.payload.left_mtime # None THEN job.payload.left_mtime
        ELSE stat_mtime(ci, left_tree, job.file_path, now),
        IF job.payload.right_mtime # None THEN job.payload.right_mtime
        ELSE stat_mtime(ci, right_tree, job.src_path, now),
        quarantine, ccd, now)

\* The RENAME_CONFLICT handler: job.src_path is the left name (kept),
\* job.file_path the right name (turned into an artifact on both sides).

\* Step 2: the kept name is copied to the right root when only the left
\* root has it; then the alert, when the snapshot knows the right name.
RenameConflictMain(ci, job, rows, left1, right1, quarantine, ccd, now, mained) ==
    IF exists(ci, left1, job.src_path) /\ ~exists(ci, right1, job.src_path)
    THEN IF ~mained.ok
         THEN JobResult(FALSE, left1, mained.tree, quarantine, << >>, ccd)
         ELSE JobResult(TRUE, left1, mained.tree, quarantine,
                        IF Has(load_state(rows), job.file_path)
                        THEN << ConflictAlert(job.file_path, "Rename Conflict") >>
                        ELSE << >>, ccd)
    ELSE JobResult(TRUE, left1, right1, quarantine,
                   IF Has(load_state(rows), job.file_path)
                   THEN << ConflictAlert(job.file_path, "Rename Conflict") >>
                   ELSE << >>, ccd)

RenameConflictStep2(ci, job, rows, left1, right1, quarantine, ccd, now) ==
    RenameConflictMain(ci, job, rows, left1, right1, quarantine, ccd, now,
        copy_file(ci, left1, job.src_path, right1, job.src_path, now))

\* Step 1, after the artifact was copied to the left root: the right name
\* is deleted on the right.
RenameConflictDeleted(ci, job, rows, left1, deleted, quarantine, ccd, now) ==
    IF ~deleted.ok
    THEN JobResult(FALSE, left1, deleted.tree, quarantine, << >>, ccd)
    ELSE RenameConflictStep2(ci, job, rows, left1, deleted.tree, quarantine, ccd, now)

RenameConflictCopied(ci, job, rows, copied, right1, quarantine, ccd, now) ==
    IF ~copied.ok
    THEN JobResult(FALSE, copied.tree, right1, quarantine, << >>, ccd)
    ELSE RenameConflictDeleted(ci, job, rows, copied.tree,
             delete_file(ci, right1, quarantine, job.file_path, FALSE, None, now),
             quarantine, ccd, now)

RenameConflictMade(ci, job, rows, made, right1, quarantine, ccd, now) ==
    IF ~made.ok
    THEN JobResult(FALSE, made.tree, right1, quarantine, << >>, ccd)
    ELSE RenameConflictCopied(ci, job, rows,
             copy_file(ci, right1, clash_path(job.file_path),
                       made.tree, clash_path(job.file_path), now),
             right1, quarantine, ccd, now)

\* Step 1, after the artifact was made on the right.
RenameConflictClashed(ci, job, rows, left_tree, clashed, quarantine, ccd, now) ==
    IF ~clashed.ok
    THEN JobResult(FALSE, left_tree, clashed.tree, quarantine, << >>, ccd)
    ELSE RenameConflictMade(ci, job, rows,
             ensure_directory(ci, left_tree, PathParent(clash_path(job.file_path)), now),
             clashed.tree, quarantine, ccd, now)

ExecRenameConflict(ci, job, rows, left_tree, right_tree, quarantine, ccd, now) ==
    IF exists(ci, right_tree, job.file_path)
    THEN RenameConflictClashed(ci, job, rows, left_tree,
             create_clash_file(ci, right_tree, job.file_path), quarantine, ccd, now)
    ELSE RenameConflictStep2(ci, job, rows, left_tree, right_tree, quarantine, ccd, now)

\* RENAME_LEFT and RENAME_RIGHT on one tree.
ExecRenameMade(ci, made, job, now) ==
    IF ~made.ok THEN made
    ELSE rename_file(ci, made.tree, job.file_path, job.dst_path, now)

ExecRename(ci, tree, job, now) ==
    ExecRenameMade(ci, ensure_directory(ci, tree, PathParent(job.dst_path), now), job, now)

\* The delete as it would be if it removed the directory with what is in it.
ExecDeleteDir_with_entries(ci, tree, p, now) ==
    IF exists(ci, tree, p) /\ is_dir(ci, tree, p) THEN RemoveAll(ci, tree, p, now) ELSE tree

\* DELETE_DIR_LEFT and DELETE_DIR_RIGHT on one tree: rmdir when the
\* directory is still empty.
ExecDeleteDir(ci, tree, p, now) ==
    IF exists(ci, tree, p) /\ is_dir(ci, tree, p) /\ ~HasEntries(ci, tree, p)
    THEN TakeEntry(ci, tree, lookup(ci, tree, p), now)
    ELSE tree

\* SyncRunner._execute_job: rows is the snapshot in the database while the
\* job runs (the one the cycle loaded).
_execute_job(cfg, ci, job, rows, left_tree, right_tree, quarantine, ccd, now) ==
    LET p == job.file_path
        a == job.action
        OnLeft(r) == JobResult(r.ok, r.tree, right_tree, quarantine, << >>, ccd)
        OnRight(r) == JobResult(r.ok, left_tree, r.tree, quarantine, << >>, ccd)
        DelLeft(r) == JobResult(r.ok, r.tree, right_tree, r.quarantine, << >>, ccd)
        DelRight(r) == JobResult(r.ok, left_tree, r.tree, r.quarantine, << >>, ccd)
        Done == JobResult(TRUE, left_tree, right_tree, quarantine, << >>, ccd)
        state == load_state(rows)
        current == Get(state, p)
        Clashed(r, on_left) ==
            JobResult(r.ok, IF on_left THEN r.tree ELSE left_tree,
                      IF on_left THEN right_tree ELSE r.tree, quarantine,
                      IF r.ok THEN << ConflictAlert(p, "unknown") >> ELSE << >>,
                      r.ok \/ ccd)
    IN CASE a = "COPY_LEFT_TO_RIGHT" -> OnRight(ExecCopy(ci, left_tree, right_tree, p, now))
         [] a = "COPY_RIGHT_TO_LEFT" -> OnLeft(ExecCopy(ci, right_tree, left_tree, p, now))
         [] a = "DELETE_LEFT" ->
                DelLeft(delete_file(ci, left_tree, quarantine, p, FALSE, None, now))
         [] a = "DELETE_RIGHT" ->
                DelRight(delete_file(ci, right_tree, quarantine, p, FALSE, None, now))
         [] a = "SOFT_DELETE_LEFT" ->
                DelLeft(delete_file(ci, left_tree, quarantine, p, TRUE,
                                    soft_delete_max_size_bytes(cfg), now))
         [] a = "SOFT_DELETE_RIGHT" ->
                DelRight(delete_file(ci, right_tree, quarantine, p, TRUE,
                                     soft_delete_max_size_bytes(cfg), now))
         [] a = "CLASH_CREATE" ->
                IF Has(state, p) /\ current.exists_left /\ current.exists_right
                THEN IF Or0(current.mtime_left) > Or0(current.mtime_right)
                     THEN Clashed(ExecClash(ci, left_tree, right_tree, p, now), FALSE)
                     ELSE Clashed(ExecClash(ci, right_tree, left_tree, p, now), TRUE)
                ELSE Done
         [] a = "CASE_CONFLICT" ->
                ExecCaseConflict(ci, job, left_tree, right_tree, quarantine, ccd, now)
         [] a = "RENAME_CONFLICT" ->
                ExecRenameConflict(ci, job, rows, left_tree, right_tree, quarantine, ccd, now)
         [] a = "RENAME_LEFT" -> OnLeft(ExecRename(ci, left_tree, job, now))
         [] a = "RENAME_RIGHT" -> OnRight(ExecRename(ci, right_tree, job, now))
         [] a = "CREATE_DIR_LEFT" -> OnLeft(ensure_directory(ci, left_tree, p, now))
         [] a = "CREATE_DIR_RIGHT" -> OnRight(ensure_directory(ci, right_tree, p, now))
         [] a = "DELETE_DIR_LEFT" ->
                JobResult(TRUE, ExecDeleteDir(ci, left_tree, p, now), right_tree,
                          quarantine, << >>, ccd)
         [] a = "DELETE_DIR_RIGHT" ->
                JobResult(TRUE, left_tree, ExecDeleteDir(ci, right_tree, p, now),
                          quarantine, << >>, ccd)
         [] OTHER -> Done

----------------------------------------------------------------------------
(* The bounds of the model *)

\* Modification times are 1..MaxMtime.
MaxMtime == 3

\* The number of outside changes to the two trees.
MaxEdits == 2

\* The number of times the engine is run.
MaxRuns == 2

\* The mtime tolerance of the two roots, in the unit of the modification
\* times (FilesystemUtils.detect_mtime_precision, 0.1 s).
Tau == 1

\* File lengths: two that differ by more than 1 %, one above 20 MiB.
Sizes == {100, 30000000}

\* The clock, for what the engine creates.
Now == MaxMtime

\* The names outside changes write and rename: "a", "A" and "t".
NameLower == <<97>>
NameUpper == <<65>>
NameIgnored == <<116>>
WritePaths == {NameLower, NameIgnored}
RenamePairs == {<<NameLower, NameUpper>>, <<NameUpper, NameLower>>}

\* The configurations: the defaults of Config, and one with soft delete
\* disabled that ignores the file name "t".
DefaultConfig ==
    [soft_delete_enabled |-> TRUE, max_size_mb |-> None,
     ignore_filenames_exact |-> {}, ignore_filenames_prefix |-> {},
     ignore_extensions |-> {}, ignore_directories |-> {},
     conflict_policy_modify_modify |-> "clash", conflict_policy_new_new |-> "clash",
     conflict_policy_metadata_conflict |-> "clash", dry_run |-> FALSE]

Configs ==
    {DefaultConfig,
     [DefaultConfig EXCEPT !.soft_delete_enabled = FALSE,
                           !.ignore_filenames_exact = {NameIgnored}]}

\* The trees a root can hold before the first run: empty, or the file "a".
InitialTrees ==
    {<< >>} \cup {(NameLower :> [mtime |-> 1, size |-> s, attrs |-> 0]) : s \in Sizes}

----------------------------------------------------------------------------
(* The state *)

VARIABLES
    cfg,              \* the Config the runner was built with
    ci,               \* TRUE when the roots are on a case-insensitive filesystem
    cwd,              \* the working directory of the process: "left" or "right" when
                      \* it is that root, else "outside"
    left,             \* the tree below left_root
    right,            \* the tree below right_root
    quarantine,       \* the soft-delete directory, when it lies outside the roots
    db,               \* the rows of table files
    pc,               \* "idle", "jobs" (in the job loop) or "second" (in run, between passes)
    pass,             \* 1 in the first cycle of a run, 2 in its second
    current_state,    \* _run_sync_cycle: the merged view of this cycle
    jobs,             \* _run_sync_cycle: the job list of this cycle
    next,             \* the index of the job the loop executes next
    failed,           \* TRUE when a job of this run returned False
    failed_jobs,      \* the action and path of each job of this run that the log
                      \* reports as failed
    content_conflicts_detected,
    conflict_alerts,
    error_alerts,     \* the affected_file of each ErrorAlert of this cycle
    edits,            \* the number of outside changes so far
    runs,             \* the number of runs started so far
    settled,          \* TRUE when the last run finished with no failed job and no
                      \* tree was changed from outside since
    result            \* what the last run() came to: "none" while it runs or before
                      \* the first one, "ok" (returned True), "error" (returned
                      \* False) or "interrupt" (KeyboardInterrupt left run())

vars == << cfg, ci, cwd, left, right, quarantine, db, pc, pass, current_state, jobs, next,
           failed, failed_jobs, content_conflicts_detected, conflict_alerts,
           error_alerts, edits, runs, settled, result >>

Init ==
    /\ cfg \in Configs
    /\ ci \in BOOLEAN
    /\ cwd = "outside"
    /\ left \in InitialTrees
    /\ right \in InitialTrees
    /\ quarantine = {}
    /\ db = << >>
    /\ pc = "idle"
    /\ pass = 1
    /\ current_state = << >>
    /\ jobs = << >>
    /\ next = 1
    /\ failed = FALSE
    /\ failed_jobs = << >>
    /\ content_conflicts_detected = FALSE
    /\ conflict_alerts = << >>
    /\ error_alerts = << >>
    /\ edits = 0
    /\ runs = 0
    /\ settled = FALSE
    /\ result = "none"

----------------------------------------------------------------------------
(* Outside changes to the trees, between runs *)

TreeOf(side) == IF side = "left" THEN left ELSE right

SetTree(side, tree) ==
    /\ left' = IF side = "left" THEN tree ELSE left
    /\ right' = IF side = "right" THEN tree ELSE right

Edited ==
    /\ pc = "idle"
    /\ edits < MaxEdits
    /\ edits' = edits + 1
    /\ settled' = FALSE
    /\ UNCHANGED << cfg, ci, cwd, quarantine, db, pc, pass, current_state, jobs, next,
                    failed, failed_jobs, content_conflicts_detected, conflict_alerts,
                    error_alerts, runs, result >>

\* What a user writes to a name: one content to "t", any time and length
\* to the other names; in a subdirectory also a length that is within 1 %
\* of another.
WriteContents(p) ==
    IF p = NameIgnored THEN {[mtime |-> 1, size |-> 100, attrs |-> 0]}
    ELSE {[mtime |-> m, size |-> s, attrs |-> 0] :
            m \in 1..MaxMtime,
            s \in IF PathParent(p) = NoPath THEN Sizes ELSE Sizes \cup {101}}

\* A user writes a file named in paths: new content, a new modification
\* time, or both.
WriteTo(paths) ==
    \E side \in {"left", "right"}, p \in paths :
        \E entry \in WriteContents(p) :
            /\ ~is_dir(ci, TreeOf(side), p)
            /\ ~BlockedByFile(ci, TreeOf(side), p)
            /\ lookup(ci, TreeOf(side), p) # NoPath
                   => TreeOf(side)[lookup(ci, TreeOf(side), p)] # entry
            /\ SetTree(side, WriteEntry(ci, TreeOf(side), p, entry))
            /\ Edited

UserWrite == WriteTo(WritePaths)

\* A user deletes a file.
UserDelete ==
    \E side \in {"left", "right"} : \E p \in DOMAIN TreeOf(side) :
        /\ TreeOf(side)[p].size # DIR_SIZE
        /\ SetTree(side, TakeEntry(ci, TreeOf(side), p, Now))
        /\ Edited

\* A user renames a file, from the first name of a pair to its second.
RenameBy(pairs) ==
    \E side \in {"left", "right"}, pair \in pairs :
        /\ pair[1] \in DOMAIN TreeOf(side)
        /\ path_rename(ci, TreeOf(side), pair[1], pair[2], Now).ok
        /\ SetTree(side, path_rename(ci, TreeOf(side), pair[1], pair[2], Now).tree)
        /\ Edited

\* A user changes the case of a file's name.
UserRename == RenameBy(RenamePairs)

----------------------------------------------------------------------------
(* SyncRunner.run and SyncRunner._run_sync_cycle *)

\* The merged view a scanner with the ignore rules of c builds from the
\* two trees, for one order of each directory walk.
MergedView(c, left_tree, right_tree, left_rev, right_rev) ==
    merge_scans(scan_directory(c, left_tree, left_rev),
                scan_directory(c, right_tree, right_rev))

\* A cycle that would go on to the job loop whatever dry_run says.
StartCycle_ignoring_dry_run ==
    /\ pc \in {"idle", "second"}
    /\ pc = "idle" => runs < MaxRuns
    /\ runs' = IF pc = "idle" THEN runs + 1 ELSE runs
    /\ pass' = IF pc = "second" THEN 2 ELSE 1
    /\ content_conflicts_detected' = FALSE
    /\ conflict_alerts' = << >>
    /\ error_alerts' = << >>
    /\ \E left_rev \in BOOLEAN, right_rev \in BOOLEAN :
        LET view == MergedView(cfg, left, right, left_rev, right_rev)
        IN /\ current_state' = view
           /\ jobs' = generate_sync_jobs(cfg, ci, load_state(db), view, left, right)
    /\ next' = 1
    /\ failed' = (pc = "second" /\ failed)
    /\ failed_jobs' = IF pc = "second" THEN failed_jobs ELSE << >>
    /\ pc' = "jobs"
    /\ result' = "none"
    /\ UNCHANGED << cfg, ci, cwd, left, right, quarantine, db, edits, settled >>

\* run() enters a cycle; the cycle clears the alerts, loads the snapshot,
\* scans and merges the roots and generates the jobs.  In dry-run mode it
\* returns there.
StartCycle ==
    /\ pc \in {"idle", "second"}
    /\ pc = "idle" => runs < MaxRuns
    /\ runs' = IF pc = "idle" THEN runs + 1 ELSE runs
    /\ pass' = IF pc = "second" THEN 2 ELSE 1
    /\ content_conflicts_detected' = FALSE
    /\ conflict_alerts' = << >>
    /\ error_alerts' = << >>
    /\ \E left_rev \in BOOLEAN, right_rev \in BOOLEAN :
        LET view == MergedView(cfg, left, right, left_rev, right_rev)
        IN /\ current_state' = view
           /\ jobs' = generate_sync_jobs(cfg, ci, load_state(db), view, left, right)
    /\ next' = 1
    /\ failed' = (pc = "second" /\ failed)
    /\ failed_jobs' = IF pc = "second" THEN failed_jobs ELSE << >>
    /\ pc' = IF cfg.dry_run THEN "idle" ELSE "jobs"
    /\ result' = IF cfg.dry_run THEN "ok" ELSE "none"
    /\ UNCHANGED << cfg, ci, cwd, left, right, quarantine, db, edits, settled >>

\* What the log says of a failed job.
LoggedAs(job) == [action |-> job.action, file_path |-> job.file_path]

\* The loop takes over what the job did and counts a failure.  The
\* soft-delete directory is a variable of its own only while it lies outside
\* the two roots.
JobDone(r) ==
    /\ left' = IF cwd = "left" THEN soft_deleted(ci, r.left, r.quarantine \ quarantine)
               ELSE r.left
    /\ right' = IF cwd = "right" THEN soft_deleted(ci, r.right, r.quarantine \ quarantine)
                ELSE r.right
    /\ quarantine' = IF cwd = "outside" THEN r.quarantine ELSE quarantine
    /\ conflict_alerts' = conflict_alerts \o r.alerts
    /\ error_alerts' = error_alerts
    /\ content_conflicts_detected' = r.ccd
    /\ failed' = (failed \/ ~r.ok)
    /\ failed_jobs' = IF r.ok THEN failed_jobs ELSE Append(failed_jobs, LoggedAs(jobs[next]))

\* One turn of the job loop.
ExecuteJob ==
    /\ pc = "jobs"
    /\ next <= Len(jobs)
    /\ JobDone(_execute_job(cfg, ci, jobs[next], db, left, right, quarantine,
                            content_conflicts_detected, Now))
    /\ next' = next + 1
    /\ UNCHANGED << cfg, ci, cwd, db, pc, pass, current_state, jobs, edits, runs, settled,
                    result >>

\* After the loop: rescan with a scanner that has no ignore rules, save
\* the merged view as the snapshot, and return to run(), which starts a
\* second cycle when the first one detected a content conflict.
FinishCycle ==
    /\ pc = "jobs"
    /\ next > Len(jobs)
    /\ \E left_rev \in BOOLEAN, right_rev \in BOOLEAN :
        db' = save_state(MergedView(NoIgnore, left, right, left_rev, right_rev))
    /\ pc' = IF pass = 1 /\ content_conflicts_detected THEN "second" ELSE "idle"
    /\ settled' = (pc' = "idle" /\ ~failed)
    /\ result' = IF pc' = "idle" THEN "ok" ELSE "none"
    /\ current_state' = << >>
    /\ jobs' = << >>
    /\ next' = 1
    /\ UNCHANGED << cfg, ci, cwd, left, right, quarantine, pass, failed, failed_jobs,
                    content_conflicts_detected, conflict_alerts, error_alerts,
                    edits, runs >>

Next ==
    \/ UserWrite
    \/ UserDelete
    \/ UserRename
    \/ StartCycle
    \/ ExecuteJob
    \/ FinishCycle

Spec == Init /\ [][Next]_vars

\* The same runner where users rename "a" to "b" or to "c" instead of
\* changing its case.
RenameAwayPairs == {<<NameLower, <<98>>>>, <<NameLower, <<99>>>>}

NextRename ==
    \/ UserWrite
    \/ UserDelete
    \/ RenameBy(RenameAwayPairs)
    \/ StartCycle
    \/ ExecuteJob
    \/ FinishCycle

SpecRename == Init /\ [][NextRename]_vars

\* The same runner where users work on the file "d/a" of a subdirectory
\* and change its case to "d/A" and back; each root starts empty or with
\* "d/a", and the configuration is the default one or one whose three
\* conflict policies are overwrite_newer, or notify_only.
NestedLower == <<100, 47>> \o NameLower

InitNested ==
    /\ cfg \in {DefaultConfig} \cup
               {[DefaultConfig EXCEPT !.conflict_policy_modify_modify = policy,
                                      !.conflict_policy_new_new = policy,
                                      !.conflict_policy_metadata_conflict = policy] :
                   policy \in {"overwrite_newer", "notify_only"}}
    /\ ci \in BOOLEAN
    /\ cwd = "outside"
    /\ left \in {<< >>, NestedLower :> [mtime |-> 1, size |-> 100, attrs |-> 0]}
    /\ right \in {<< >>, NestedLower :> [mtime |-> 1, size |-> 100, attrs |-> 0]}
    /\ quarantine = {}
    /\ db = << >>
    /\ pc = "idle"
    /\ pass = 1
    /\ current_state = << >>
    /\ jobs = << >>
    /\ next = 1
    /\ failed = FALSE
    /\ failed_jobs = << >>
    /\ content_conflicts_detected = FALSE
    /\ conflict_alerts = << >>
    /\ error_alerts = << >>
    /\ edits = 0
    /\ runs = 0
    /\ settled = FALSE
    /\ result = "none"

NextNested ==
    \/ WriteTo({NestedLower})
    \/ UserDelete
    \/ RenameBy({<<NestedLower, <<100, 47>> \o NameUpper>>,
                 <<<<100, 47>> \o NameUpper, NestedLower>>})
    \/ StartCycle
    \/ ExecuteJob
    \/ FinishCycle

SpecNested == InitNested /\ [][NextNested]_vars

\* The same runner on roots that hold directories.  Each root starts as
\* one of four trees; between the first run and the second, users change
\* the two roots into any two of the trees below: empty, the empty
\* directories "d", "d/e", "e" and "D", the file "d/a" in two versions, the
\* file "a", and "a" beside "d".  The configuration is the default one or
\* one that ignores the directory name "d".  A run can be interrupted in its
\* job loop, and the save of the snapshot can raise.
NameDir == <<100>>

DirTrees ==
    LET dir == [mtime |-> 1, size |-> DIR_SIZE, attrs |-> 0]
        file == [mtime |-> 1, size |-> 100, attrs |-> 0]
        other == [mtime |-> 2, size |-> 30000000, attrs |-> 0]
        read_only == [mtime |-> 1, size |-> 100, attrs |-> 2]
    IN {<< >>, NameDir :> dir, (NameDir \o <<47, 101>>) :> dir, <<101>> :> dir,
        <<68>> :> dir, NestedLower :> file, NestedLower :> other, NameLower :> file,
        (NameLower :> file) @@ (NameDir :> dir), NameLower :> read_only}

InitialDirTrees ==
    {t \in DirTrees : DOMAIN t \subseteq {NameDir, NameDir \o <<47, 101>>, NameLower}
                      /\ Cardinality(DOMAIN t) <= 1
                      /\ \A p \in DOMAIN t : t[p].attrs = 0}

InitTrees ==
    /\ cfg \in {DefaultConfig, [DefaultConfig EXCEPT !.ignore_directories = {NameDir}],
                [DefaultConfig EXCEPT !.dry_run = TRUE]}
    /\ ci \in BOOLEAN
    /\ cwd = "outside"
    /\ left \in InitialDirTrees
    /\ right \in InitialDirTrees
    /\ quarantine = {}
    /\ db = << >>
    /\ pc = "idle"
    /\ pass = 1
    /\ current_state = << >>
    /\ jobs = << >>
    /\ next = 1
    /\ failed = FALSE
    /\ failed_jobs = << >>
    /\ content_conflicts_detected = FALSE
    /\ conflict_alerts = << >>
    /\ error_alerts = << >>
    /\ edits = 0
    /\ runs = 0
    /\ settled = FALSE
    /\ result = "none"

\* Users change the two roots after the first run.
UsersChange ==
    /\ runs = 1
    /\ edits = 0
    /\ left' \in DirTrees
    /\ right' \in DirTrees
    /\ << left', right' >> # << left, right >>
    /\ Edited

\* run() is left without a saved snapshot: the cycle's locals are gone.
RunLeft(how) ==
    /\ pc = "jobs"
    /\ pc' = "idle"
    /\ result' = how
    /\ settled' = FALSE
    /\ current_state' = << >>
    /\ jobs' = << >>
    /\ next' = 1
    /\ UNCHANGED << cfg, ci, cwd, left, right, quarantine, pass, failed, failed_jobs,
                    content_conflicts_detected, conflict_alerts, error_alerts,
                    edits, runs >>

\* An interrupt that would store the trees as they stand before it leaves.
Cancel_saving ==
    /\ next <= Len(jobs)
    /\ \E left_rev, right_rev \in BOOLEAN :
          db' = save_state(MergedView(NoIgnore, left, right, left_rev, right_rev))
    /\ RunLeft("interrupt")

\* KeyboardInterrupt between two jobs: it is no Exception, so neither the
\* job loop nor run() catches it, and main() exits with 130.
Cancel ==
    /\ next <= Len(jobs)
    /\ db' = db
    /\ RunLeft("interrupt")

\* The rows the connection of save_state has written when its statement k
\* is about to run: statement 0 is the DELETE, statement i the INSERT of
\* entry i, the last one the commit.
Pending(state, k) == IF k = 0 THEN << >> ELSE SubSeq(save_state(state), 1, k - 1)

\* The table as it would be left if every statement were committed at once.
save_state_raising_autocommit(rows, state, k) ==
    IF k = 0 THEN rows ELSE Pending(state, k)

\* StateDB.save_state when statement k raises sqlite3.Error: the statements
\* ran in the transaction the connection opened for the DELETE, the commit
\* was not reached, and conn.close() rolls the transaction back.
save_state_raising(rows, state, k) ==
    LET conn == [committed |-> rows, in_transaction |-> Pending(state, k)]
    IN conn.committed

\* After the job loop the save raises: _run_sync_cycle and run() are left
\* through except Exception, and run() returns False.
FinishCycleRaises ==
    /\ next > Len(jobs)
    /\ \E left_rev \in BOOLEAN, right_rev \in BOOLEAN :
        \E k \in 0..(Len(MergedView(NoIgnore, left, right, left_rev, right_rev)) + 1) :
            db' = save_state_raising(db, MergedView(NoIgnore, left, right,
                                                    left_rev, right_rev), k)
    /\ RunLeft("error")

\* The rmdir of a DELETE_DIR job is due: the directory is there and empty.
rmdir_due(job) ==
    /\ job.action \in {"DELETE_DIR_LEFT", "DELETE_DIR_RIGHT"}
    /\ LET tree == IF job.action = "DELETE_DIR_LEFT" THEN left ELSE right
       IN /\ exists(ci, tree, job.file_path)
          /\ is_dir(ci, tree, job.file_path)
          /\ ~HasEntries(ci, tree, job.file_path)

\* What the job loop does with a job that raised.
JobRaised(affected_file, goes_on) ==
    /\ error_alerts' = Append(error_alerts, affected_file)
    /\ failed' = TRUE
    /\ failed_jobs' = Append(failed_jobs, LoggedAs(jobs[next]))
    /\ next' = next + 1
    /\ pc' = IF goes_on THEN pc ELSE "idle"
    /\ result' = IF goes_on THEN result ELSE "error"
    /\ UNCHANGED << cfg, ci, cwd, left, right, quarantine, db, pass, current_state, jobs,
                    content_conflicts_detected, conflict_alerts, edits, runs, settled >>

\* A job loop that a raising job would end.
ExecuteJobRaises_aborting ==
    /\ pc = "jobs"
    /\ next <= Len(jobs)
    /\ rmdir_due(jobs[next])
    /\ JobRaised(jobs[next].file_path, FALSE)

\* One turn of the job loop in which Path.rmdir raises OSError (the
\* directory is in use, or the user may not remove it).  The DELETE_DIR
\* handler calls rmdir outside FileOps, so the error is no FileOpsError and
\* leaves _execute_job; the loop's except Exception appends an ErrorAlert
\* for job.file_path, counts the job as failed and goes on.
ExecuteJobRaises ==
    /\ pc = "jobs"
    /\ next <= Len(jobs)
    /\ rmdir_due(jobs[next])
    /\ JobRaised(jobs[next].file_path, TRUE)

NextTrees ==
    \/ UsersChange
    \/ StartCycle
    \/ ExecuteJob
    \/ FinishCycle
    \/ Cancel
    \/ ExecuteJobRaises
    \/ FinishCycleRaises

SpecTrees == InitTrees /\ [][NextTrees]_vars

\* A later start of the program, run from a directory that may be one of
\* the roots: the snapshot of an earlier run records the file "a" on both
\* sides, and since then users may have deleted it.
QuarantineTrees == {<< >>, NameLower :> [mtime |-> 1, size |-> 100, attrs |-> 0]}

InitQuarantine ==
    /\ cfg = DefaultConfig
    /\ ci \in BOOLEAN
    /\ cwd \in {"outside", "left", "right"}
    /\ left \in QuarantineTrees
    /\ right \in QuarantineTrees
    /\ quarantine = {}
    /\ db = save_state(MergedView(NoIgnore, NameLower :> [mtime |-> 1, size |-> 100, attrs |-> 0],
                                  NameLower :> [mtime |-> 1, size |-> 100, attrs |-> 0],
                                  FALSE, FALSE))
    /\ pc = "idle"
    /\ pass = 1
    /\ current_state = << >>
    /\ jobs = << >>
    /\ next = 1
    /\ failed = FALSE
    /\ failed_jobs = << >>
    /\ content_conflicts_detected = FALSE
    /\ conflict_alerts = << >>
    /\ error_alerts = << >>
    /\ edits = 0
    /\ runs = 0
    /\ settled = FALSE
    /\ result = "none"

\* The job the loop is about to execute copies or deletes a file, and
\* would change a tree.
file_operation_due(job) ==
    /\ job.action \in {"COPY_LEFT_TO_RIGHT", "COPY_RIGHT_TO_LEFT", "DELETE_LEFT",
                       "DELETE_RIGHT", "SOFT_DELETE_LEFT", "SOFT_DELETE_RIGHT"}
    /\ LET r == _execute_job(cfg, ci, job, db, left, right, quarantine,
                             content_conflicts_detected, Now)
       IN r.ok /\ << r.left, r.right, r.quarantine >> # << left, right, quarantine >>

\* One turn of the job loop in which the operating system refuses the copy
\* or the delete (the file is locked, or the user may not change it):
\* FileOps turns the OSError into FileOpsError before anything is changed,
\* and _execute_job logs it and returns False.
ExecuteJobFails ==
    /\ pc = "jobs"
    /\ next <= Len(jobs)
    /\ file_operation_due(jobs[next])
    /\ failed' = TRUE
    /\ failed_jobs' = Append(failed_jobs, LoggedAs(jobs[next]))
    /\ next' = next + 1
    /\ UNCHANGED << cfg, ci, cwd, left, right, quarantine, db, pc, pass, current_state,
                    jobs, content_conflicts_detected, conflict_alerts, error_alerts,
                    edits, runs, settled, result >>

NextQuarantine ==
    \/ UserDelete
    \/ StartCycle
    \/ ExecuteJob
    \/ FinishCycle
    \/ ExecuteJobFails
    \/ FinishCycleRaises

SpecQuarantine == InitQuarantine /\ [][NextQuarantine]_vars

----------------------------------------------------------------------------
(* The statements checked *)

\* The previous state of the cycle in progress: the job loop does not
\* write the database, so it is still what StartCycle loaded.
PreviousState == load_state(db)

\* The actions of the job list that name path p, in the order emitted.
JobsFor(p) == SelectSeq(jobs, LAMBDA j : j.file_path = p)
ActionsFor(p) == [i \in 1..Len(JobsFor(p)) |-> JobsFor(p)[i].action]

\* A conflict artifact: a name with the conflict tag in it.
IsArtifact(p) == \E i \in 1..(Len(p) - 1) : SubSeq(p, i, i + 1) = CONFLICT_TAG

\* "Same" and "changed" by the tolerance, for one side of a path.
WithinTau(now_mtime, then_mtime) == Abs(now_mtime - then_mtime) <= Tau
LaterThanTau(now_mtime, then_mtime) == now_mtime > then_mtime + Tau

\* A regular file the snapshot records on both sides.
OnBothIn(state, p) ==
    /\ Has(state, p)
    /\ Get(state, p).exists_left /\ Get(state, p).exists_right
    /\ ~is_directory(Get(state, p))

\* No other casing of p is in the merged view, or in it and the snapshot.
OneCasingNow(p) == \A q \in Keys(current_state) : lower(q) = lower(p) => q = p
OneCasing(p) ==
    /\ OneCasingNow(p)
    /\ \A q \in Keys(PreviousState) : lower(q) = lower(p) => q = p

OnlyLeft(m) == m.exists_left /\ ~m.exists_right /\ ~is_directory(m)
OnlyRight(m) == m.exists_right /\ ~m.exists_left /\ ~is_directory(m)

\* C1: a cycle that follows a finished run, with no outside change to
\* either tree in between, has an empty job list.
C1_SecondCycleEmitsNothing ==
    (pc = "jobs" /\ pass = 1 /\ settled) => jobs = << >>

\* C2: when a run has finished (its second pass included), every conflict
\* artifact in either tree is in both trees under the same name with the
\* same content.
C2_ArtifactsOnBothSides ==
    (pc = "idle" /\ settled) =>
        \A p \in DOMAIN left \cup DOMAIN right :
            IsArtifact(p) =>
                /\ p \in DOMAIN left /\ p \in DOMAIN right
                /\ left[p].size = right[p].size

\* C3: no two actions of one job list name the same path, the copy and the
\* delete of a rename aside (they name the new and the old path).
C3_NoPathNamedTwice ==
    pc = "jobs" =>
        \A i, j \in DOMAIN jobs : i < j => jobs[i].file_path # jobs[j].file_path

\* C4: a file the snapshot has on both sides and that is now on one side
\* only, changed there since the snapshot (mtime later by more than Tau, or
\* another size), gets exactly one action: the copy to the other side.
\* Stated for the paths that have one casing, where no case or rename
\* phase takes part.
C4_ChangedSurvivorIsCopied ==
    pc = "jobs" =>
        \A p \in Keys(current_state) :
            (OnBothIn(PreviousState, p) /\ OneCasing(p)) =>
                LET prev == Get(PreviousState, p)
                    curr == Get(current_state, p)
                IN  /\ (/\ OnlyLeft(curr)
                        /\ \/ LaterThanTau(curr.mtime_left, prev.mtime_left)
                           \/ curr.size_left # prev.size_left)
                       => ActionsFor(p) = << "COPY_LEFT_TO_RIGHT" >>
                    /\ (/\ OnlyRight(curr)
                        /\ \/ LaterThanTau(curr.mtime_right, prev.mtime_right)
                           \/ curr.size_right # prev.size_right)
                       => ActionsFor(p) = << "COPY_RIGHT_TO_LEFT" >>

\* C5: a file the snapshot has on both sides and that is now on one side
\* only, with an mtime within Tau of the snapshot's for that side, gets
\* exactly one action: the delete or soft delete of the surviving copy.
\* Stated for the paths that have one casing.
C5_UnchangedSurvivorIsDeleted ==
    pc = "jobs" =>
        \A p \in Keys(current_state) :
            (OnBothIn(PreviousState, p) /\ OneCasing(p)) =>
                LET prev == Get(PreviousState, p)
                    curr == Get(current_state, p)
                IN  /\ (OnlyLeft(curr) /\ WithinTau(curr.mtime_left, prev.mtime_left))
                       => ActionsFor(p) \in {<< "DELETE_LEFT" >>, << "SOFT_DELETE_LEFT" >>}
                    /\ (OnlyRight(curr) /\ WithinTau(curr.mtime_right, prev.mtime_right))
                       => ActionsFor(p) \in {<< "DELETE_RIGHT" >>, << "SOFT_DELETE_RIGHT" >>}

\* The size of the copy a delete or soft delete removes.
RemovedSize(job) ==
    IF job.action \in {"DELETE_LEFT", "SOFT_DELETE_LEFT"}
    THEN Get(current_state, job.file_path).size_left
    ELSE Get(current_state, job.file_path).size_right

\* C6: an action that removes a file of the merged view is the soft delete
\* exactly when soft delete is enabled and either no cap is configured
\* (max_size_mb absent) or the size of the copy being removed is at most
\* the cap.
C6_SoftDeleteGating ==
    pc = "jobs" =>
        \A i \in DOMAIN jobs :
            (/\ jobs[i].action \in {"DELETE_LEFT", "DELETE_RIGHT",
                                    "SOFT_DELETE_LEFT", "SOFT_DELETE_RIGHT"}
             /\ Has(current_state, jobs[i].file_path))
            => (jobs[i].action \in {"SOFT_DELETE_LEFT", "SOFT_DELETE_RIGHT"}
                <=> /\ cfg.soft_delete_enabled
                    /\ \/ cfg.max_size_mb = None
                       \/ RemovedSize(jobs[i]) <= cfg.max_size_mb * 1024 * 1024)

\* C7: a file on both sides now and in the snapshot, each side with the
\* snapshot's size and an mtime within Tau of the snapshot's, gets no copy
\* and no conflict action.  Stated for the paths that have one casing.
C7_UnchangedGetsNoCopy ==
    pc = "jobs" =>
        \A p \in Keys(current_state) :
            (OnBothIn(PreviousState, p) /\ OnBothIn(current_state, p) /\ OneCasing(p)) =>
                LET prev == Get(PreviousState, p)
                    curr == Get(current_state, p)
                IN  (/\ curr.size_left = prev.size_left
                     /\ curr.size_right = prev.size_right
                     /\ WithinTau(curr.mtime_left, prev.mtime_left)
                     /\ WithinTau(curr.mtime_right, prev.mtime_right))
                    => \A i \in DOMAIN JobsFor(p) :
                          ActionsFor(p)[i] \notin
                              {"COPY_LEFT_TO_RIGHT", "COPY_RIGHT_TO_LEFT", "CLASH_CREATE",
                               "CASE_CONFLICT", "RENAME_CONFLICT"}

\* C8: a file on both sides now and in the snapshot, changed on one side
\* (mtime later by more than Tau) and not on the other (same size, mtime
\* within Tau), gets exactly one action: the copy from the changed side,
\* whatever the two sizes.  Stated for the paths that have one casing.
C8_OneSidedChangeIsCopied ==
    pc = "jobs" =>
        \A p \in Keys(current_state) :
            (OnBothIn(PreviousState, p) /\ OnBothIn(current_state, p) /\ OneCasing(p)) =>
                LET prev == Get(PreviousState, p)
                    curr == Get(current_state, p)
                IN  /\ (/\ LaterThanTau(curr.mtime_left, prev.mtime_left)
                        /\ curr.size_right = prev.size_right
                        /\ WithinTau(curr.mtime_right, prev.mtime_right))
                       => ActionsFor(p) = << "COPY_LEFT_TO_RIGHT" >>
                    /\ (/\ LaterThanTau(curr.mtime_right, prev.mtime_right)
                        /\ curr.size_left = prev.size_left
                        /\ WithinTau(curr.mtime_left, prev.mtime_left))
                       => ActionsFor(p) = << "COPY_RIGHT_TO_LEFT" >>

\* C9: a regular file with no entry in the snapshot and on exactly one side
\* gets exactly one action: the copy to the side that lacks it.  Stated
\* for the paths no other casing of which is in the merged view.
C9_NewFileIsCopied ==
    pc = "jobs" =>
        \A p \in Keys(current_state) :
            (~Has(PreviousState, p) /\ OneCasingNow(p)) =>
                /\ OnlyLeft(Get(current_state, p))
                   => ActionsFor(p) = << "COPY_LEFT_TO_RIGHT" >>
                /\ OnlyRight(Get(current_state, p))
                   => ActionsFor(p) = << "COPY_RIGHT_TO_LEFT" >>

\* C10: with no snapshot and two identical trees, the cycle has an empty
\* job list, and the snapshot it saves holds the records of its merged view.
C10_IdenticalTreesFirstRun ==
    [][(pass' = 1 /\ db = << >> /\ left = right) =>
          /\ (pc = "idle" /\ pc' = "jobs") => jobs' = << >>
          /\ (pc = "jobs" /\ jobs = << >> /\ pc' # "jobs")
             => SeqToSet(db') = SeqToSet(save_state(current_state))]_vars

\* The current keys that are path p in some casing.
Bucket(p) == {k \in Keys(current_state) : lower(k) = lower(p)}

\* The jobs that name a path of set S as their path, source or destination.
JobsNaming(S) ==
    SelectSeq(jobs, LAMBDA j : j.file_path \in S \/ j.src_path \in S \/ j.dst_path \in S)

\* The casing under which a tree holds the file p, when it holds one.
CasingsIn(tree, p) == {k \in DOMAIN tree : lower(k) = lower(p) /\ tree[k].size # DIR_SIZE}

\* The trees hold the file prev_path of the snapshot under one casing each,
\* not the same one: both sides changed the casing, or one side did.
TwoCasings(prev_path) ==
    /\ OnBothIn(PreviousState, prev_path)
    /\ Cardinality(Bucket(prev_path)) = 2
    /\ \E l \in CasingsIn(left, prev_path), r \in CasingsIn(right, prev_path) :
          /\ CasingsIn(left, prev_path) = {l}
          /\ CasingsIn(right, prev_path) = {r}
          /\ l # r
          /\ Bucket(prev_path) = {l, r}

\* C11: when the merged view holds exactly two casings of a file of the
\* snapshot, one on each side, the job list has exactly one job that names
\* the previous path or either casing, and it is a CASE_CONFLICT.
C11_OneCaseConflictJob ==
    (pc = "jobs" /\ next = 1) =>
        \A prev_path \in Keys(PreviousState) :
            TwoCasings(prev_path) =>
                LET named == JobsNaming(Bucket(prev_path) \cup {prev_path})
                IN  Len(named) = 1 /\ named[1].action = "CASE_CONFLICT"

\* The job loop of the cycle is over; db and current_state are still the
\* snapshot and the merged view the cycle started from.
CycleExecuted == pc = "jobs" /\ next > Len(jobs)

\* The file prev_path of the snapshot is in the merged view with the
\* snapshot's size and mtime on each side, under the casing new on one side
\* and under its old casing on the other.
OnlyCasingChanged(prev_path, new) ==
    /\ OnBothIn(PreviousState, prev_path)
    /\ new # prev_path /\ lower(new) = lower(prev_path)
    /\ Bucket(prev_path) = {prev_path, new}
    /\ LET prev == Get(PreviousState, prev_path)
           old_now == Get(current_state, prev_path)
           new_now == Get(current_state, new)
       IN  \/ /\ new_now.exists_left /\ old_now.exists_right /\ ~old_now.exists_left
              /\ new_now.mtime_left = prev.mtime_left /\ new_now.size_left = prev.size_left
              /\ old_now.mtime_right = prev.mtime_right /\ old_now.size_right = prev.size_right
           \/ /\ new_now.exists_right /\ old_now.exists_left /\ ~old_now.exists_right
              /\ new_now.mtime_right = prev.mtime_right /\ new_now.size_right = prev.size_right
              /\ old_now.mtime_left = prev.mtime_left /\ old_now.size_left = prev.size_left

\* The conflict artifacts in the trees that the merged view does not have.
NewArtifacts ==
    {k \in DOMAIN left \cup DOMAIN right : IsArtifact(k) /\ ~Has(current_state, k)}

\* C12: when one side changed only the casing of a file of the snapshot,
\* the cycle leaves the new casing on both sides and the old one on neither,
\* writes no conflict artifact and has no RENAME_CONFLICT job.
C12_CasePropagated ==
    CycleExecuted =>
        \A prev_path \in Keys(PreviousState), new \in Keys(current_state) :
            OnlyCasingChanged(prev_path, new) =>
                /\ \A i \in DOMAIN jobs : jobs[i].action # "RENAME_CONFLICT"
                /\ NewArtifacts = {}
                /\ new \in DOMAIN left /\ new \in DOMAIN right
                /\ prev_path \notin DOMAIN left /\ prev_path \notin DOMAIN right

\* The job the executor is about to run is a CASE_CONFLICT, and its left
\* case is the one casing of the file in the left tree, its right case the
\* one casing in the right tree.
CaseConflictDue ==
    /\ pc = "jobs" /\ next <= Len(jobs)
    /\ jobs[next].action = "CASE_CONFLICT"
    /\ jobs[next].file_path # jobs[next].src_path
    /\ CasingsIn(left, jobs[next].file_path) = {jobs[next].file_path}
    /\ CasingsIn(right, jobs[next].src_path) = {jobs[next].src_path}

\* Both trees hold the file main with the content bytes, neither holds a
\* file other, and both hold the artifact of other with the content older.
CaseConflictSettled(main, bytes, other, older) ==
    /\ main \in DOMAIN left' /\ left'[main].size = bytes
    /\ main \in DOMAIN right' /\ right'[main].size = bytes
    /\ other \notin DOMAIN left' /\ other \notin DOMAIN right'
    /\ case_conflict_name(other) \in DOMAIN left'
    /\ left'[case_conflict_name(other)].size = older
    /\ case_conflict_name(other) \in DOMAIN right'
    /\ right'[case_conflict_name(other)].size = older

\* C13: executing a CASE_CONFLICT leaves the variant with the strictly newer
\* mtime (the left one when the mtimes are equal) as the file of both sides
\* under its casing, and the content of the other variant as the conflict
\* artifact of both sides.
C13_NewerCasingWins ==
    [][CaseConflictDue =>
          LET left_case == jobs[next].file_path
              right_case == jobs[next].src_path
          IN  IF left[left_case].mtime >= right[right_case].mtime
              THEN CaseConflictSettled(left_case, left[left_case].size,
                                       right_case, right[right_case].size)
              ELSE CaseConflictSettled(right_case, right[right_case].size,
                                       left_case, left[left_case].size)]_vars

\* The jobs by which the reconciler settles the casing of a path.
CaseJobs ==
    SelectSeq(jobs, LAMBDA j : \/ j.action = "CASE_CONFLICT"
                               \/ /\ j.action \in {"RENAME_LEFT", "RENAME_RIGHT"}
                                  /\ lower(j.file_path) = lower(j.dst_path))

\* C14: when the jobs of a cycle that settle the casing of a path have all
\* run without a failure, the two trees hold the file under the same
\* casings, conflict artifacts aside.
C14_SameCasings ==
    (CycleExecuted /\ ~failed) =>
        \A i \in DOMAIN CaseJobs :
            CasingsIn(left, CaseJobs[i].file_path) = CasingsIn(right, CaseJobs[i].file_path)

\* The conflict artifacts the step adds to a tree.
ArtifactsAdded ==
    {k \in (DOMAIN left' \ DOMAIN left) \cup (DOMAIN right' \ DOMAIN right) : IsArtifact(k)}

\* C15: a CLASH_CREATE or CASE_CONFLICT job for a file of a subdirectory
\* writes its conflict artifacts in that subdirectory.
C15_ArtifactBesideOriginal ==
    [][(/\ pc = "jobs" /\ next <= Len(jobs)
        /\ jobs[next].action \in {"CLASH_CREATE", "CASE_CONFLICT"}
        /\ PathParent(jobs[next].file_path) # NoPath)
       => \A k \in ArtifactsAdded : PathParent(k) = PathParent(jobs[next].file_path)]_vars

\* The snapshot has the file old on both sides; the merged view has it
\* unchanged on the right only and has the file new, which the snapshot
\* does not have, on the left only with the mtime and size old had there.
RenamedOnLeft(old, new) ==
    /\ OnBothIn(PreviousState, old)
    /\ Has(current_state, old) /\ Has(current_state, new)
    /\ ~Has(PreviousState, new)
    /\ OnlyRight(Get(current_state, old))
    /\ Get(current_state, old).mtime_right = Get(PreviousState, old).mtime_right
    /\ Get(current_state, old).size_right = Get(PreviousState, old).size_right
    /\ OnlyLeft(Get(current_state, new))
    /\ Get(current_state, new).mtime_left = Get(PreviousState, old).mtime_left
    /\ Get(current_state, new).size_left = Get(PreviousState, old).size_left

\* The same, renamed on the right.
RenamedOnRight(old, new) ==
    /\ OnBothIn(PreviousState, old)
    /\ Has(current_state, old) /\ Has(current_state, new)
    /\ ~Has(PreviousState, new)
    /\ OnlyLeft(Get(current_state, old))
    /\ Get(current_state, old).mtime_left = Get(PreviousState, old).mtime_left
    /\ Get(current_state, old).size_left = Get(PreviousState, old).size_left
    /\ OnlyRight(Get(current_state, new))
    /\ Get(current_state, new).mtime_right = Get(PreviousState, old).mtime_right
    /\ Get(current_state, new).size_right = Get(PreviousState, old).size_right

\* The jobs that name old or new are one copy of new and one delete, hard
\* or soft, of old.
RenamePropagated(old, new, copy, deletes) ==
    /\ Len(JobsNaming({old, new})) = 2
    /\ Len(JobsFor(new)) = 1 /\ JobsFor(new)[1].action = copy
    /\ Len(JobsFor(old)) = 1 /\ JobsFor(old)[1].action \in deletes

RenamedApart(old, left_new, right_new) ==
    /\ OnBothIn(PreviousState, old)
    /\ ~Has(current_state, old)
    /\ left_new # right_new
    /\ ~Has(PreviousState, left_new) /\ ~Has(PreviousState, right_new)
    /\ Has(current_state, left_new) /\ Has(current_state, right_new)
    /\ OnlyLeft(Get(current_state, left_new))
    /\ Get(current_state, left_new).mtime_left = Get(PreviousState, old).mtime_left
    /\ Get(current_state, left_new).size_left = Get(PreviousState, old).size_left
    /\ OnlyRight(Get(current_state, right_new))
    /\ Get(current_state, right_new).mtime_right = Get(PreviousState, old).mtime_right
    /\ Get(current_state, right_new).size_right = Get(PreviousState, old).size_right

\* C17: when the two sides renamed a file of the snapshot to two different
\* names, the cycle leaves left's new name, with left's content, as a file
\* of both trees and the conflict artifact of right's new name, with right's
\* content, in both trees; neither tree holds the old name or right's new
\* name.
C17_RenameConflictSettled ==
    \A left_pair \in RenameAwayPairs, right_pair \in RenameAwayPairs :
        (/\ CycleExecuted
         /\ left_pair[1] = right_pair[1]
         /\ RenamedApart(left_pair[1], left_pair[2], right_pair[2]))
        => /\ left_pair[2] \in DOMAIN left /\ left_pair[2] \in DOMAIN right
           /\ left[left_pair[2]].size = Get(PreviousState, left_pair[1]).size_left
           /\ right[left_pair[2]].size = Get(PreviousState, left_pair[1]).size_left
           /\ clash_path(right_pair[2]) \in DOMAIN left
           /\ clash_path(right_pair[2]) \in DOMAIN right
           /\ left[clash_path(right_pair[2])].size = Get(PreviousState, left_pair[1]).size_right
           /\ right[clash_path(right_pair[2])].size = Get(PreviousState, left_pair[1]).size_right
           /\ left_pair[1] \notin DOMAIN left /\ left_pair[1] \notin DOMAIN right
           /\ right_pair[2] \notin DOMAIN left /\ right_pair[2] \notin DOMAIN right

\* A cycle has settled a file renamed to "b" on the left and "c" on the right.
C17_Witness ==
    /\ CycleExecuted /\ ~failed
    /\ \E i \in DOMAIN jobs : jobs[i].action = "RENAME_CONFLICT"
    /\ RenamedApart(NameLower, <<98>>, <<99>>)
    /\ clash_path(<<99>>) \in DOMAIN left

\* The merged view has the file p, which the snapshot does not have in any
\* casing, on both sides with two different sizes.
NewOnBothSides(p) ==
    /\ OnBothIn(current_state, p)
    /\ OneCasing(p) /\ ~Has(PreviousState, p)
    /\ Get(current_state, p).size_left # Get(current_state, p).size_right

\* Both trees hold the file p with the content main, and both hold the
\* conflict artifact of p with the content older.
ClashSettled(p, main, older) ==
    /\ p \in DOMAIN left' /\ left'[p].size = main
    /\ p \in DOMAIN right' /\ right'[p].size = main
    /\ clash_path(p) \in DOMAIN left' /\ left'[clash_path(p)].size = older
    /\ clash_path(p) \in DOMAIN right' /\ right'[clash_path(p)].size = older

\* C18: a file that is new on both sides with different sizes gets a
\* CLASH_CREATE, and executing the CLASH_CREATE leaves the newer version (the
\* left one when the mtimes are equal) as the file of both sides and the
\* other version as the conflict artifact.
C18_NewNewClash ==
    [][/\ (pc = "jobs" /\ next = 1) =>
             \A p \in Keys(current_state) :
                 NewOnBothSides(p) => ActionsFor(p) = << "CLASH_CREATE" >>
       /\ (/\ pc = "jobs" /\ next <= Len(jobs)
           /\ jobs[next].action = "CLASH_CREATE"
           /\ NewOnBothSides(jobs[next].file_path)
           /\ jobs[next].file_path \in DOMAIN left
           /\ jobs[next].file_path \in DOMAIN right)
          => LET p == jobs[next].file_path
             IN  IF left[p].mtime >= right[p].mtime
                 THEN ClashSettled(p, left[p].size, right[p].size)
                 ELSE ClashSettled(p, right[p].size, left[p].size)]_vars

\* The snapshot has the file p on both sides, and the merged view has it on
\* both sides with a later mtime on each, the two mtimes within the
\* tolerance of each other, and two different sizes.
ModifiedOnBothSides(p) ==
    /\ OnBothIn(PreviousState, p) /\ OnBothIn(current_state, p)
    /\ Get(current_state, p).mtime_left > Get(PreviousState, p).mtime_left
    /\ Get(current_state, p).mtime_right > Get(PreviousState, p).mtime_right
    /\ WithinTau(Get(current_state, p).mtime_left, Get(current_state, p).mtime_right)
    /\ Get(current_state, p).size_left # Get(current_state, p).size_right

\* C19: under the clash policy, a file of the snapshot modified on both
\* sides to different sizes, at times within the tolerance of each other, gets
\* a CLASH_CREATE, and no other job when the path has one casing.
C19_ModifyModifyClash ==
    (pc = "jobs" /\ cfg.conflict_policy_modify_modify = "clash") =>
        \A p \in Keys(current_state) :
            ModifiedOnBothSides(p) =>
                /\ \E i \in DOMAIN ActionsFor(p) : ActionsFor(p)[i] = "CLASH_CREATE"
                /\ OneCasing(p) => ActionsFor(p) = << "CLASH_CREATE" >>

\* The reconciler has emitted the job for such a file whose two sizes are
\* within 1 % of each other and whose two mtimes differ.
C19_Witness ==
    /\ pc = "jobs" /\ next = 1
    /\ cfg.conflict_policy_modify_modify = "clash"
    /\ ModifiedOnBothSides(NestedLower)
    /\ Get(current_state, NestedLower).size_left = 100
    /\ Get(current_state, NestedLower).size_right = 101
    /\ Get(current_state, NestedLower).mtime_left # Get(current_state, NestedLower).mtime_right
    /\ ActionsFor(NestedLower) = << "CLASH_CREATE" >>

\* The merged view has the file p on both sides with two different sizes,
\* and p is new on both sides or was modified on both since the snapshot.
ContentConflict(p) ==
    /\ OnBothIn(current_state, p)
    /\ Get(current_state, p).size_left # Get(current_state, p).size_right
    /\ \/ ~Has(PreviousState, p)
       \/ /\ OnBothIn(PreviousState, p)
          /\ Get(current_state, p).mtime_left > Get(PreviousState, p).mtime_left
          /\ Get(current_state, p).mtime_right > Get(PreviousState, p).mtime_right

\* The file p of a tree is as the merged view recorded it.
AsScanned(p) ==
    /\ p \in DOMAIN left /\ p \in DOMAIN right
    /\ left[p].mtime = Get(current_state, p).mtime_left
    /\ left[p].size = Get(current_state, p).size_left
    /\ right[p].mtime = Get(current_state, p).mtime_right
    /\ right[p].size = Get(current_state, p).size_right

C21_NotifyOnly ==
    (pc = "jobs" /\ cfg.conflict_policy_modify_modify = "notify_only") =>
        \A p \in Keys(current_state) :
            (ContentConflict(p) /\ OneCasing(p)) =>
                /\ ActionsFor(p) = << "NOOP" >>
                /\ CycleExecuted =>
                       /\ AsScanned(p)
                       /\ \E i \in DOMAIN conflict_alerts : conflict_alerts[i].file_path = p

\* The snapshot records p as an empty directory on both sides.
DirectoryOnBothIn(state, p) ==
    /\ Has(state, p)
    /\ Get(state, p).exists_left /\ Get(state, p).exists_right
    /\ is_directory(Get(state, p))

\* C22: when the snapshot records an empty directory on both sides and the
\* directory is now an empty directory on one side and gone from the other,
\* the job list has exactly one job for it, the directory delete on the side
\* that still has it.
C22_DirectoryDeletePropagated ==
    (pc = "jobs" /\ next = 1) =>
        \A p \in Keys(PreviousState) :
            DirectoryOnBothIn(PreviousState, p) =>
                /\ (p \in DOMAIN left /\ left[p].size = DIR_SIZE /\ ~exists(ci, right, p))
                       => ActionsFor(p) = << "DELETE_DIR_LEFT" >>
                /\ (p \in DOMAIN right /\ right[p].size = DIR_SIZE /\ ~exists(ci, left, p))
                       => ActionsFor(p) = << "DELETE_DIR_RIGHT" >>

\* The directory deletes of the job list that name p.
DirectoryDeletesFor(p) ==
    SelectSeq(ActionsFor(p), LAMBDA a : a \in {"DELETE_DIR_LEFT", "DELETE_DIR_RIGHT"})

\* The directory deletes for the sides on which entry m records its path.
DeletesForSidesOf(m) ==
    (IF m.exists_left THEN << "DELETE_DIR_LEFT" >> ELSE << >>)
        \o (IF m.exists_right THEN << "DELETE_DIR_RIGHT" >> ELSE << >>)

\* A directory sentinel of the snapshot that the merged view does not have.
DirectoryGone(p) ==
    /\ Has(PreviousState, p)
    /\ is_directory(Get(PreviousState, p))
    /\ ~Has(current_state, p)

\* C23 as stated: every directory sentinel of the snapshot that is absent
\* from the merged view gets a directory delete for each side on which the
\* snapshot records it, and for no other side.
C23_EveryGoneDirectoryDeleted ==
    pc = "jobs" =>
        \A p \in Keys(PreviousState) :
            DirectoryGone(p) =>
                DirectoryDeletesFor(p) = DeletesForSidesOf(Get(PreviousState, p))

\* Path p is in the set processed when the sweep begins: a phase before it
\* has claimed p, as a name of a case conflict or case change, or as a name
\* of a rename conflict or rename that it has handled.
ClaimedByEarlierPhase(p) ==
    p \in RenameSteps(current_state, _detect_renames(PreviousState, current_state),
                      CaseSteps(ci, current_state, left, right,
                                _detect_case_changes(PreviousState, current_state))).processed

\* C23, amended: a directory sentinel of the snapshot that is absent from
\* the merged view gets a directory delete for each side on which the
\* snapshot records it, and for no other side, unless a phase before the
\* sweep has claimed the path (as a name of a case change or of a rename);
\* then it gets no directory delete.
C23_GoneDirectoryDeleted ==
    pc = "jobs" =>
        \A p \in Keys(PreviousState) :
            DirectoryGone(p) =>
                DirectoryDeletesFor(p) =
                    IF ClaimedByEarlierPhase(p) THEN << >>
                    ELSE DeletesForSidesOf(Get(PreviousState, p))

\* The reconciler has emitted the delete for a directory the snapshot
\* records on the right only.
C23_Witness ==
    /\ pc = "jobs"
    /\ \E p \in Keys(PreviousState) :
          /\ DirectoryGone(p) /\ ~ClaimedByEarlierPhase(p)
          /\ ~Get(PreviousState, p).exists_left
          /\ DirectoryDeletesFor(p) = << "DELETE_DIR_RIGHT" >>

\* The job loop is about to execute a directory delete of path p on the
\* tree of side, where the directory has an entry.
DeleteOfFullDirectoryDue(side, p) ==
    /\ pc = "jobs" /\ next <= Len(jobs)
    /\ jobs[next].file_path = p
    /\ jobs[next].action = (IF side = "left" THEN "DELETE_DIR_LEFT" ELSE "DELETE_DIR_RIGHT")
    /\ HasEntries(ci, TreeOf(side), p)

\* C24: a directory delete executed on a directory that has an entry
\* changes neither tree, and the job is not counted as failed.
C24_FullDirectoryKept ==
    [][\A side \in {"left", "right"} :
          (/\ pc = "jobs" /\ next <= Len(jobs) /\ next' = next + 1
           /\ DeleteOfFullDirectoryDue(side, jobs[next].file_path))
          => /\ left' = left /\ right' = right /\ quarantine' = quarantine
             /\ failed' = failed]_vars

\* The directory delete the loop is about to execute names a directory
\* that had no entry on that side when the cycle scanned it, with no ignore
\* rule hiding any, and has one now.
C24_Witness ==
    \E p \in Keys(PreviousState) :
        /\ cfg.ignore_directories = {}
        /\ DeleteOfFullDirectoryDue("right", p)
        /\ \A i \in DOMAIN current_state :
              IsUnder(ci, current_state[i].relative_path, p) => ~current_state[i].exists_right

\* The paths named by the jobs of the clean-rename loop of this reconcile.
RenameJobPaths ==
    LET renamed ==
            RenameSteps(current_state, _detect_renames(PreviousState, current_state),
                        CaseSteps(ci, current_state, left, right,
                                  _detect_case_changes(PreviousState, current_state))).rename
    IN {renamed[i].file_path : i \in DOMAIN renamed}

\* The place of a job's phase in the claimed order: 1 case conflicts and
\* case changes, 2 rename conflicts, 3 renames, 4 content conflicts,
\* 5 per-path rules, 6 directory deletions.  A copy or delete belongs to
\* the content conflicts when its path is a detected conflict, to the
\* renames when the rename loop named its path, else to the rules.
PhaseOf(job) ==
    IF job.action \in {"CASE_CONFLICT", "RENAME_LEFT", "RENAME_RIGHT"} THEN 1
    ELSE IF job.action = "RENAME_CONFLICT" THEN 2
    ELSE IF job.action \in {"DELETE_DIR_LEFT", "DELETE_DIR_RIGHT"} THEN 6
    ELSE IF job.action \in {"CLASH_CREATE", "NOOP"} THEN 4
    ELSE IF /\ Has(current_state, job.file_path)
            /\ ConflictTypeOf(PreviousState, Get(current_state, job.file_path)) # "none"
    THEN 4
    ELSE IF job.file_path \in RenameJobPaths THEN 3
    ELSE 5

\* C25: in the job list no job comes before a job of an earlier phase, the
\* phases being, in order: case conflicts (with the case changes), rename
\* conflicts, renames, content conflicts, per-path rules, directory
\* deletions.
C25_PhaseOrder ==
    pc = "jobs" =>
        \A i, j \in DOMAIN jobs : i < j => PhaseOf(jobs[i]) <= PhaseOf(jobs[j])

\* The reconciler has emitted a job list with jobs of three phases.
C25_Witness ==
    /\ pc = "jobs" /\ next = 1
    /\ Cardinality({PhaseOf(jobs[i]) : i \in DOMAIN jobs}) >= 3

\* Path q lies below directory p.
Below(p, q) ==
    /\ Len(q) > Len(p) + 1
    /\ SubSeq(q, 1, Len(p) + 1) = p \o <<47>>

\* C26: among the directory deletions of one reconcile, the deletion of a
\* directory never comes before the deletion of one of its descendants.
C26_LeavesFirst ==
    pc = "jobs" =>
        \A i, j \in DOMAIN jobs :
            (/\ jobs[i].action \in {"DELETE_DIR_LEFT", "DELETE_DIR_RIGHT"}
             /\ jobs[j].action \in {"DELETE_DIR_LEFT", "DELETE_DIR_RIGHT"}
             /\ Below(jobs[i].file_path, jobs[j].file_path))
            => j < i

\* Path p sorts before or with path q (code points, shorter prefix first).
RECURSIVE PathLeq(_, _)
PathLeq(p, q) ==
    IF p = << >> THEN TRUE
    ELSE IF q = << >> THEN FALSE
    ELSE IF Head(p) # Head(q) THEN Head(p) < Head(q)
    ELSE PathLeq(Tail(p), Tail(q))

\* The jobs the per-path rules gave in this reconcile.
RuleJobs ==
    Phases(cfg, ci, PreviousState, current_state, left, right).rule

\* C27: the jobs of the per-path rules appear in the job list in sorted
\* order of their paths, whatever the order of the merged view.
C27_RuleJobsSorted ==
    (pc = "jobs" /\ next = 1) =>
        \A i, j \in DOMAIN RuleJobs :
            i < j => PathLeq(RuleJobs[i].file_path, RuleJobs[j].file_path)

ScansUnderCycleFilters ==
    {save_state(MergedView(cfg, left, right, left_rev, right_rev)) : left_rev, right_rev \in BOOLEAN}

\* C30: the snapshot a cycle saves at its end is the merge of the two roots
\* as scanned at that moment under the ignore rules of the cycle's first
\* scan.  Cycles that made a conflict artifact are left out: for the others
\* no path is excepted.
C30_SnapshotIsFilteredMerge ==
    [][(/\ pc = "jobs" /\ next > Len(jobs)
        /\ result' \notin {"error", "interrupt"}
        /\ \A i \in DOMAIN jobs :
              jobs[i].action \notin {"CLASH_CREATE", "CASE_CONFLICT", "RENAME_CONFLICT"})
          => db' \in ScansUnderCycleFilters]_vars

\* The job the loop is about to execute returns False.
JobReturnsFalse ==
    /\ pc = "jobs"
    /\ next <= Len(jobs)
    /\ ~_execute_job(cfg, ci, jobs[next], db, left, right, quarantine,
                     content_conflicts_detected, Now).ok

\* C31: a job that fails, by returning False or by raising, does not end
\* the cycle: the loop goes on to the next job of the same list, and the
\* loop is left only after the last job (an interrupt aside).
C31_FailureDoesNotAbort ==
    [][(pc = "jobs" /\ result' # "interrupt")
          => /\ (JobReturnsFalse \/ error_alerts' # error_alerts)
                    => (pc' = "jobs" /\ jobs' = jobs /\ next' = next + 1)
             /\ pc' # "jobs" => next > Len(jobs)]_vars

\* A job raised, and the loop has since executed the last job of the list,
\* a job for another path.
C31_Witness ==
    /\ pc = "jobs"
    /\ next > Len(jobs)
    /\ Len(error_alerts) = 1
    /\ jobs[Len(jobs)].file_path # error_alerts[1]

\* C32: every job that fails, by returning False after a file-operation
\* error or by raising another exception, adds an entry naming its path to
\* the error alerts of the cycle.
C32_FailureRecorded ==
    [][(/\ pc = "jobs" /\ next <= Len(jobs) /\ next' = next + 1
        /\ (JobReturnsFalse \/ error_alerts' # error_alerts))
          => error_alerts' = Append(error_alerts, jobs[next].file_path)]_vars

C34_EveryKeyMerged ==
    \A left_rev, right_rev \in BOOLEAN :
        LET L == scan_directory(cfg, left, left_rev)
            R == scan_directory(cfg, right, right_rev)
        IN {L[i].path : i \in DOMAIN L} \cup {R[j].path : j \in DOMAIN R}
              \subseteq Keys(merge_scans(L, R))

\* The right scan holds two keys that differ only by case, and the left
\* scan holds one of them.
C34_Witness ==
    LET L == scan_directory(cfg, left, FALSE)
        R == scan_directory(cfg, right, FALSE)
    IN /\ \E i, j \in DOMAIN R :
              R[i].path # R[j].path /\ lower(R[i].path) = lower(R[j].path)
       /\ \E i \in DOMAIN L, j \in DOMAIN R : L[i].path = R[j].path
       /\ Len(merge_scans(L, R)) >= 2

\* Path p is on both sides with mtime and size as the snapshot records
\* them, and only the attributes of the given side differ from the snapshot.
OnlyAttrsChanged(side, p) ==
    /\ Has(PreviousState, p) /\ Has(current_state, p)
    /\ LET prev == Get(PreviousState, p)
           curr == Get(current_state, p)
       IN /\ prev.exists_left /\ prev.exists_right
          /\ curr.exists_left /\ curr.exists_right
          /\ curr.size_left # DIR_SIZE
          /\ curr.mtime_left = prev.mtime_left /\ curr.mtime_right = prev.mtime_right
          /\ curr.size_left = prev.size_left /\ curr.size_right = prev.size_right
          /\ (curr.attrs_left # prev.attrs_left) = (side = "left")
          /\ (curr.attrs_right # prev.attrs_right) = (side = "right")

\* C35: for a file on both sides whose mtime and size are those of the
\* snapshot and whose attributes changed on one side only, the reconciler
\* emits exactly one job, an attribute sync from that side to the other.
C35_AttributeSync ==
    (pc = "jobs" /\ next = 1) =>
        \A p \in Keys(current_state) :
            /\ OnlyAttrsChanged("left", p) =>
                  \E i \in DOMAIN jobs :
                      /\ jobs[i].action = "SYNC_ATTRS_LEFT_TO_RIGHT"
                      /\ \A j \in DOMAIN jobs : jobs[j].file_path = p => j = i
            /\ OnlyAttrsChanged("right", p) =>
                  \E i \in DOMAIN jobs :
                      /\ jobs[i].action = "SYNC_ATTRS_RIGHT_TO_LEFT"
                      /\ \A j \in DOMAIN jobs : jobs[j].file_path = p => j = i

\* C36: the reconciler emits no job, soft delete or other, for a file that
\* is a soft-delete artifact below the directory .deleted.
C36_NoJobForArtifact ==
    pc = "jobs" =>
        \A i \in DOMAIN jobs : ~Below(soft_delete_root, jobs[i].file_path)

\* The stored snapshot describes the two trees as they are: no tree was
\* changed since the snapshot was saved.
TreesAsSaved ==
    \E left_rev, right_rev \in BOOLEAN :
        db = save_state(MergedView(NoIgnore, left, right, left_rev, right_rev))

\* The change a job makes: a soft delete and a hard delete of one side are
\* the same change.
ChangeOf(action) ==
    CASE action \in {"DELETE_LEFT", "SOFT_DELETE_LEFT"} -> "DELETE_LEFT"
      [] action \in {"DELETE_RIGHT", "SOFT_DELETE_RIGHT"} -> "DELETE_RIGHT"
      [] OTHER -> action

\* C37: when a job failed in one cycle and no tree was changed since that
\* cycle saved its snapshot, the next cycle emits, for the path of the
\* failed job, a job that makes the same change, and no other job for that
\* path.
C37_FailedJobRetried ==
    [][(pc = "idle" /\ pc' = "jobs" /\ result = "ok" /\ TreesAsSaved)
          => \A k \in DOMAIN failed_jobs :
                /\ \E i \in DOMAIN jobs' :
                      /\ jobs'[i].file_path = failed_jobs[k].file_path
                      /\ ChangeOf(jobs'[i].action) = ChangeOf(failed_jobs[k].action)
                /\ \A i \in DOMAIN jobs' :
                      jobs'[i].file_path = failed_jobs[k].file_path
                          => ChangeOf(jobs'[i].action) = ChangeOf(failed_jobs[k].action)]_vars

\* The job list of the cycle holds a CLASH_CREATE that the executor did not
\* report as failed.
ClashCreateExecuted ==
    \E i \in DOMAIN jobs :
        /\ jobs[i].action = "CLASH_CREATE"
        /\ \A k \in DOMAIN failed_jobs : failed_jobs[k] # LoggedAs(jobs[i])

\* C38: when the first cycle of a run has executed a CLASH_CREATE and comes
\* to its end, run() starts the second cycle, whatever other jobs the cycle
\* executed.
C38_ClashCreateForcesSecondPass ==
    [][(/\ pc = "jobs" /\ pass = 1 /\ next > Len(jobs) /\ pc' # "jobs"
        /\ result' \notin {"error", "interrupt"}
        /\ ClashCreateExecuted)
          => pc' = "second"]_vars

\* After the step, both sides hold the version `winner` as the file p and
\* one side at least holds the version `loser` as the conflict artifact of p.
ClashResolved(p, winner, loser) ==
    /\ p \in DOMAIN left' /\ left'[p].size = winner.size
    /\ p \in DOMAIN right' /\ right'[p].size = winner.size
    /\ \/ clash_path(p) \in DOMAIN left' /\ left'[clash_path(p)].size = loser.size
       \/ clash_path(p) \in DOMAIN right' /\ right'[clash_path(p)].size = loser.size

\* C39: when the executor returns True for a CLASH_CREATE of a file that both
\* sides hold, one of the two versions is the file of both sides afterwards
\* and the other version is kept as a conflict artifact, with or without an
\* entry for the path in the stored snapshot.
C39_ClashCreateSuccess ==
    [][(/\ pc = "jobs" /\ next <= Len(jobs)
        /\ jobs[next].action = "CLASH_CREATE"
        /\ next' = next + 1 /\ failed_jobs' = failed_jobs /\ error_alerts' = error_alerts
        /\ jobs[next].file_path \in DOMAIN left
        /\ jobs[next].file_path \in DOMAIN right)
          => LET p == jobs[next].file_path
             IN  \/ ClashResolved(p, left[p], right[p])
                 \/ ClashResolved(p, right[p], left[p])]_vars

\* The snapshot has the file old on both sides; in the merged view `side`
\* no longer has old and alone has new, a path the snapshot does not know,
\* with the mtime and size old had on that side; the other side still has
\* old.
MovedOn(side, old, new) ==
    /\ OnBothIn(PreviousState, old)
    /\ Has(current_state, old) /\ Has(current_state, new)
    /\ ~Has(PreviousState, new)
    /\ IF side = "left"
       THEN /\ OnlyRight(Get(current_state, old))
            /\ OnlyLeft(Get(current_state, new))
            /\ Get(current_state, new).mtime_left = Get(PreviousState, old).mtime_left
            /\ Get(current_state, new).size_left = Get(PreviousState, old).size_left
       ELSE /\ OnlyLeft(Get(current_state, old))
            /\ OnlyRight(Get(current_state, new))
            /\ Get(current_state, new).mtime_right = Get(PreviousState, old).mtime_right
            /\ Get(current_state, new).size_right = Get(PreviousState, old).size_right

\* The file p of `side` is as the snapshot has it: the same size, and an
\* mtime within the tolerance.
UnchangedOn(side, p) ==
    IF side = "left"
    THEN /\ Get(current_state, p).size_left = Get(PreviousState, p).size_left
         /\ WithinTau(Get(current_state, p).mtime_left, Get(PreviousState, p).mtime_left)
    ELSE /\ Get(current_state, p).size_right = Get(PreviousState, p).size_right
         /\ WithinTau(Get(current_state, p).mtime_right, Get(PreviousState, p).mtime_right)

\* The job list deletes p on `side`, hard or soft.
DeletesOn(side, p) ==
    \E i \in DOMAIN jobs :
        /\ jobs[i].file_path = p
        /\ jobs[i].action \in IF side = "left" THEN {"DELETE_LEFT", "SOFT_DELETE_LEFT"}
                              ELSE {"DELETE_RIGHT", "SOFT_DELETE_RIGHT"}

\* C40: when one side renamed a file of the snapshot, the job list deletes
\* the old name on the other side only if the file there has the size the
\* snapshot records and an mtime within the tolerance of the recorded one.
C40_RenameDeletesUnchangedOnly ==
    pc = "jobs" =>
        \A pair \in RenameAwayPairs :
            /\ (MovedOn("left", pair[1], pair[2]) /\ DeletesOn("right", pair[1]))
                  => UnchangedOn("right", pair[1])
            /\ (MovedOn("right", pair[1], pair[2]) /\ DeletesOn("left", pair[1]))
                  => UnchangedOn("left", pair[1])

====
